---- MODULE Spec2Model ----
(***************************************************************************)
(* A model of ezkl's circuit configuration layer: SelectorConstructor,     *)
(* Table / RangeCheck (src/circuit/table.rs) and BaseConfig                *)
(* (src/circuit/ops/chip.rs).                                              *)
(*                                                                         *)
(* The constraint system and the table layouter are halo2's; they are      *)
(* modelled by what the calls made here do to them: a column or selector   *)
(* allocation returns the next free index, a lookup registration appends   *)
(* a relation, a table-cell assignment writes a fixed cell and fails on a  *)
(* column that an earlier assign_table call already assigned.              *)
(***************************************************************************)
EXTENDS Integers, Sequences, FiniteSets, TLC

VARIABLES
    cs,              \* ConstraintSystem<F>: allocation counters and lookups
    check_mode,      \* BaseConfig.check_mode
    static_lookups,  \* BaseConfig.static_lookups
    range_checks,    \* BaseConfig.range_checks
    dynamic_lookups, \* BaseConfig.dynamic_lookups
    shuffles,        \* BaseConfig.shuffles
    custom_gates,    \* BaseConfig.custom_gates
    gates,           \* ConstraintSystem<F>: the gates created
    fixed,           \* assigned table cells: <<column, row>> -> field value
    used_columns,    \* table columns closed by an earlier assign_table call
    last,            \* the last call made: its arguments and what it returned
    panicked         \* the program aborted on a panic

vars == <<cs, check_mode, static_lookups, range_checks, dynamic_lookups,
          shuffles, custom_gates, gates, fixed, used_columns, last, panicked>>

----------------------------------------------------------------------------
(* Bounds of the model. *)

\* largest upper end of a lookup range passed to configure_lookup
MaxHi == 16
\* largest number of blinding factors the constraint system reports
MaxBlinding == 5
\* num_blocks and num_inner_cols of the advice VarTensors passed
MaxBlocks == 2
MaxInnerCols == 1
\* largest degree of a SelectorConstructor evaluated on its own
MaxDegree == 5
\* largest known element of the values passed to BaseConfig::layout
MaxElement == 1
\* largest number of successful configure_dynamic_lookup (configure_shuffles)
\* calls on one BaseConfig
MaxCalls == 2
\* largest number of selectors of a constraint system BaseConfig::configure
\* is called on
MaxPriorSelectors == 24
\* largest number of inner columns of the output BaseConfig::configure is
\* called on
MaxGateInnerCols == 2

----------------------------------------------------------------------------
(* The field F.  Arithmetic is that of a prime field; P stands for the    *)
(* modulus of the scalar field, far above every integer that occurs.      *)

P == 8191

FAdd(a, b) == (a + b) % P
FSub(a, b) == ((a - b) + P) % P
FMul(a, b) == (a * b) % P

\* F::from(u64)
FFrom(n) == n % P

\* fieldutils::i64_to_felt: a negative integer maps to the negation of |x|
i64_to_felt(x) == IF x >= 0 THEN x % P ELSE (P - ((-x) % P)) % P

\* fieldutils::felt_to_i64: the upper half of the field reads as negative
felt_to_i64(f) == IF f > P \div 2 THEN f - P ELSE f

Abs(x) == IF x < 0 THEN -x ELSE x

RECURSIVE FPow(_, _)
\* a^n in the field, by squaring
FPow(a, n) ==
    IF n = 0 THEN 1
    ELSE LET h == FPow(a, n \div 2)
         IN  IF n % 2 = 1 THEN FMul(FMul(h, h), a) ELSE FMul(h, h)

\* the inverse of a nonzero field element
FInv(a) == FPow(a, P - 2)

RECURSIVE FProduct(_, _)
\* the product of g[j] over the finite set S of indices
FProduct(S, g) ==
    IF S = {} THEN 1
    ELSE LET j == CHOOSE k \in S : TRUE
         IN  FMul(g[j], FProduct(S \ {j}, g))

----------------------------------------------------------------------------
(* SelectorConstructor *)

\* SelectorConstructor::get_expr_at_idx(i, expr), evaluated where the index
\* expression takes the value e: the product over x in 0..degree, x # i, of
\* expr (x = 0) or Constant(x) - expr (x > 0); the empty product is 1.
get_expr_at_idx(degree, i, e) ==
    LET term == [x \in 0..(degree - 1) |->
                    IF x = 0 THEN e ELSE FSub(FFrom(x), e)]
    IN  FProduct({x \in 0..(degree - 1) : x # i}, term)

get_selector_val_at_idx_swapped(degree, i) ==
    LET term == [x \in 0..(degree - 1) |->
                    IF x = 0 THEN FFrom(i) ELSE FSub(FFrom(i), FFrom(x))]
    IN  FProduct({x \in 0..(degree - 1) : x # i}, term)

\* SelectorConstructor::get_selector_val_at_idx(i): the product over x in
\* 0..degree, x # i, of F::from(i) (x = 0) or F::from(x) - F::from(i).
get_selector_val_at_idx(degree, i) ==
    LET term == [x \in 0..(degree - 1) |->
                    IF x = 0 THEN FFrom(i) ELSE FSub(FFrom(x), FFrom(i))]
    IN  FProduct({x \in 0..(degree - 1) : x # i}, term)

----------------------------------------------------------------------------
(* LookupOp, VarTensor and the values the callers pass *)

\* the nonlinearities of the model, two variants of LookupOp
LookupOps == {"Abs", "ReLU"}

\* the derived Ord of LookupOp, the key order of the BTreeMap of tables
LookupOpOrd(nl) == IF nl = "Abs" THEN 0 ELSE 1

\* LookupOp::f on one element: the integer function applied to felt_to_i64
LookupOp_f(nl, x) ==
    LET v == felt_to_i64(x)
    IN  IF nl = "Abs" THEN i64_to_felt(Abs(v))
        ELSE i64_to_felt(IF v > 0 THEN v ELSE 0)

\* VarTensor::Advice { inner, num_inner_cols, .. } by its shape
Advice(blocks, inner_cols) ==
    [kind |-> "Advice", num_blocks |-> blocks, num_inner_cols |-> inner_cols]

\* VarTensor::Dummy, a tensor that is not of the advice kind
Dummy == [kind |-> "Dummy", num_blocks |-> 1, num_inner_cols |-> 1]

\* VarTensor::Empty, the default of a registry's input, output and index
Empty == [kind |-> "Empty", num_blocks |-> 0, num_inner_cols |-> 0]

is_advice(t) == t.kind = "Advice"

\* the ranges passed to configure_lookup: closed intervals lo <= hi
RangeArgs == {<<-1, 1>>, <<-2, MaxHi>>}

\* the logrows passed to configure_lookup
LogRowsArgs == {4, 5}

\* Option<Vec<TableColumn>>
None == [some |-> FALSE, val |-> <<>>]
Some(v) == [some |-> TRUE, val |-> v]

\* BTreeMap::insert
Insert(map, k, v) ==
    [j \in (DOMAIN map) \cup {k} |-> IF j = k THEN v ELSE map[j]]

----------------------------------------------------------------------------
(* Table *)

RESERVED_BLINDING_ROWS_PAD == 3

cal_col_size_no_reserve(logrows, reserved_blinding_rows) == 2 ^ logrows

\* Table::cal_col_size
cal_col_size(logrows, reserved_blinding_rows) ==
    2 ^ logrows - reserved_blinding_rows

num_cols_required_padded(range_len, col_size) == (range_len \div col_size) + 2

\* num_cols_required
num_cols_required(range_len, col_size) == (range_len \div col_size) + 1

Table_configure_fresh_inputs(c, range, logrows, nonlinearity, preexisting_inputs) ==
    LET factors  == c.blinding_factors + RESERVED_BLINDING_ROWS_PAD
        col_size == 2 ^ logrows - factors
        n == num_cols_required(Abs(range[2] - range[1]), col_size)
    IN  [table |-> [nonlinearity |-> nonlinearity,
                    table_inputs |-> [k \in 1..n |-> c.num_table_columns + k],
                    table_outputs |->
                        [k \in 1..n |-> c.num_table_columns + n + k],
                    is_assigned |-> FALSE,
                    selector_constructor |-> [degree |-> n],
                    col_size |-> col_size,
                    range |-> range],
         cs |-> [c EXCEPT !.num_table_columns = @ + 2 * n]]

\* Table::configure: the table and the constraint system after it
Table_configure(c, range, logrows, nonlinearity, preexisting_inputs) ==
    LET factors  == c.blinding_factors + RESERVED_BLINDING_ROWS_PAD
        col_size == cal_col_size(logrows, factors)
        num_cols == num_cols_required(Abs(range[2] - range[1]), col_size)
        table_inputs ==
            IF preexisting_inputs.some THEN preexisting_inputs.val
            ELSE [k \in 1..num_cols |-> c.num_table_columns + k]
        c1 == IF preexisting_inputs.some THEN c
              ELSE [c EXCEPT !.num_table_columns = @ + num_cols]
        n  == Len(table_inputs)
        table_outputs == [k \in 1..n |-> c1.num_table_columns + k]
    IN  [table |-> [nonlinearity |-> nonlinearity,
                    table_inputs |-> table_inputs,
                    table_outputs |-> table_outputs,
                    is_assigned |-> FALSE,
                    selector_constructor |-> [degree |-> n],
                    col_size |-> col_size,
                    range |-> range],
         cs |-> [c1 EXCEPT !.num_table_columns = @ + n]]

get_col_index_first(t, input) == i64_to_felt(0)

\* Table::get_col_index(input): the chunk the input is in
get_col_index(t, input) ==
    i64_to_felt(Abs(felt_to_i64(input) - t.range[1]) \div t.col_size)

\* Table::get_first_element(chunk)
get_first_element(t, chunk) ==
    LET first_element == i64_to_felt(chunk * t.col_size + t.range[1])
    IN  <<first_element, LookupOp_f(t.nonlinearity, first_element)>>

cartesian_coord_transposed(t, linear_coord) ==
    <<linear_coord % t.col_size, linear_coord \div t.col_size>>

\* Table::cartesian_coord
cartesian_coord(t, linear_coord) ==
    <<linear_coord \div t.col_size, linear_coord % t.col_size>>

\* what one assign_cell of a table layouter does to the layouter state st:
\* the cell is written, unless an earlier assign_table call assigned the
\* column, which is an error (Error::Synthesis)
assign_cell(st, column, row, value) ==
    IF column \in st.used_columns
    THEN [st EXCEPT !.ret = "Synthesis"]
    ELSE [st EXCEPT !.fixed  = Insert(@, <<column, row>>, value),
                    !.writes = Append(@, <<column, row, value>>)]

\* indexing a Vec past its end panics
IndexPanics(vec, x) == x >= Len(vec)

RECURSIVE Table_layout_rows(_, _, _, _, _, _)
\* the closure passed to assign_table for chunk chunk_idx, from row r on:
\* per row the input cell (unless preassigned_input), then the output cell
Table_layout_rows(t, preassigned_input, chunk_idx, r, count, st) ==
    IF r = count THEN st
    ELSE
      LET col_multiplier ==
              get_selector_val_at_idx(t.selector_constructor.degree, chunk_idx)
          row_offset == r + chunk_idx * t.col_size
          xy     == cartesian_coord(t, row_offset)
          input  == i64_to_felt(t.range[1] + row_offset)
          output == LookupOp_f(t.nonlinearity, input)
          s1 == IF preassigned_input THEN st
                ELSE IF IndexPanics(t.table_inputs, xy[1])
                     THEN [st EXCEPT !.ret = "panic"]
                     ELSE assign_cell(st, t.table_inputs[xy[1] + 1], xy[2],
                                      FMul(input, col_multiplier))
          s2 == IF s1.ret # "Ok" THEN s1
                ELSE IF IndexPanics(t.table_outputs, xy[1])
                     THEN [s1 EXCEPT !.ret = "panic"]
                     ELSE assign_cell(s1, t.table_outputs[xy[1] + 1], xy[2],
                                      FMul(output, col_multiplier))
      IN  IF s2.ret # "Ok" THEN s2
          ELSE Table_layout_rows(t, preassigned_input, chunk_idx, r + 1,
                                 count, s2)

\* the number of chunks of inputs.chunks(col_size) for n inputs
NumChunks(n, col_size) == IF n <= 0 THEN 0 ELSE ((n - 1) \div col_size) + 1

Min(a, b) == IF a <= b THEN a ELSE b

RECURSIVE Table_layout_chunks(_, _, _, _, _)
\* the chunks in order, one assign_table call each, stopping at the first
\* error; a call that succeeds closes the columns it assigned
Table_layout_chunks(t, preassigned_input, chunk_idx, n, st) ==
    IF chunk_idx = NumChunks(n, t.col_size) THEN st
    ELSE
      LET count == Min(t.col_size, n - chunk_idx * t.col_size)
          s1 == Table_layout_rows(t, preassigned_input, chunk_idx, 0, count, st)
          assigned == {w[1] : w \in {s1.writes[k] :
                                     k \in (Len(st.writes) + 1)..Len(s1.writes)}}
      IN  IF s1.ret # "Ok" THEN s1
          ELSE Table_layout_chunks(t, preassigned_input, chunk_idx + 1, n,
                 [s1 EXCEPT !.used_columns = @ \cup assigned])

Table_layout_unguarded(t, st, preassigned_input) ==
    [table |-> [t EXCEPT !.is_assigned = TRUE],
     st    |-> Table_layout_chunks(t, preassigned_input, 0,
                                   (t.range[2] - t.range[1]) + 1, st)]

\* Table::layout(layouter, preassigned_input) on table t with the layouter
\* in state st = [fixed, used_columns, writes, ret, failing]; failing holds
\* the nonlinearities whose evaluation (LookupOp::f) returns an error during
\* the call
Table_layout(t, st, preassigned_input) ==
    IF t.is_assigned
    THEN [table |-> t, st |-> [st EXCEPT !.ret = "TableAlreadyAssigned"]]
    ELSE IF t.nonlinearity \in st.failing
    THEN [table |-> t, st |-> [st EXCEPT !.ret = "TensorError"]]
    ELSE [table |-> [t EXCEPT !.is_assigned = TRUE],
          st    |-> Table_layout_chunks(t, preassigned_input, 0,
                                        (t.range[2] - t.range[1]) + 1, st)]

----------------------------------------------------------------------------
(* RangeCheck *)

\* RangeCheck::cal_col_size
RangeCheck_cal_col_size(logrows, reserved_blinding_rows) ==
    2 ^ logrows - reserved_blinding_rows

\* RangeCheck::configure: the range check and the constraint system after it
RangeCheck_configure(c, range, logrows) ==
    LET factors  == c.blinding_factors + RESERVED_BLINDING_ROWS_PAD
        col_size == RangeCheck_cal_col_size(logrows, factors)
        num_cols == num_cols_required(Abs(range[2] - range[1]), col_size)
        inputs   == [k \in 1..num_cols |-> c.num_table_columns + k]
    IN  [range_check |-> [inputs |-> inputs,
                          col_size |-> col_size,
                          is_assigned |-> FALSE,
                          selector_constructor |-> [degree |-> Len(inputs)],
                          range |-> range],
         cs |-> [c EXCEPT !.num_table_columns = @ + num_cols]]

RangeCheck_get_first_element_of_range(rc, chunk) ==
    i64_to_felt(rc.range[1])

\* RangeCheck::get_first_element(chunk)
RangeCheck_get_first_element(rc, chunk) ==
    i64_to_felt(chunk * rc.col_size + rc.range[1])

\* RangeCheck::cartesian_coord
RangeCheck_cartesian_coord(rc, linear_coord) ==
    <<linear_coord \div rc.col_size, linear_coord % rc.col_size>>

RECURSIVE RangeCheck_layout_rows(_, _, _, _, _)
\* the closure passed to assign_table for chunk chunk_idx, from row r on
RangeCheck_layout_rows(rc, chunk_idx, r, count, st) ==
    IF r = count THEN st
    ELSE
      LET col_multiplier ==
              get_selector_val_at_idx(rc.selector_constructor.degree, chunk_idx)
          row_offset == r + chunk_idx * rc.col_size
          xy    == RangeCheck_cartesian_coord(rc, row_offset)
          input == i64_to_felt(rc.range[1] + row_offset)
          s1 == IF IndexPanics(rc.inputs, xy[1])
                THEN [st EXCEPT !.ret = "panic"]
                ELSE assign_cell(st, rc.inputs[xy[1] + 1], xy[2],
                                 FMul(input, col_multiplier))
      IN  IF s1.ret # "Ok" THEN s1
          ELSE RangeCheck_layout_rows(rc, chunk_idx, r + 1, count, s1)

RECURSIVE RangeCheck_layout_chunks(_, _, _, _)
\* the chunks in order, one assign_table call each, stopping at the first
\* error
RangeCheck_layout_chunks(rc, chunk_idx, n, st) ==
    IF chunk_idx = NumChunks(n, rc.col_size) THEN st
    ELSE
      LET count == Min(rc.col_size, n - chunk_idx * rc.col_size)
          s1 == RangeCheck_layout_rows(rc, chunk_idx, 0, count, st)
          assigned == {w[1] : w \in {s1.writes[k] :
                                     k \in (Len(st.writes) + 1)..Len(s1.writes)}}
      IN  IF s1.ret # "Ok" THEN s1
          ELSE RangeCheck_layout_chunks(rc, chunk_idx + 1, n,
                 [s1 EXCEPT !.used_columns = @ \cup assigned])

\* RangeCheck::layout(layouter)
RangeCheck_layout(rc, st) ==
    IF rc.is_assigned
    THEN [range_check |-> rc,
          st |-> [st EXCEPT !.ret = "TableAlreadyAssigned"]]
    ELSE [range_check |-> [rc EXCEPT !.is_assigned = TRUE],
          st |-> RangeCheck_layout_chunks(rc, 0,
                     (rc.range[2] - rc.range[1]) + 1, st)]

\* RangeCheck::get_col_index(input): the chunk the input is in
RangeCheck_get_col_index(rc, input) ==
    i64_to_felt(Abs(felt_to_i64(input) - rc.range[1]) \div rc.col_size)

----------------------------------------------------------------------------
(* BaseConfig *)

contains_key_never(map, k) == FALSE

\* BTreeMap::contains_key
contains_key(map, k) == k \in DOMAIN map

\* the keys of the table registry in key order
RECURSIVE SortedKeys(_)
SortedKeys(S) ==
    IF S = {} THEN <<>>
    ELSE LET k == CHOOSE j \in S : \A o \in S : LookupOpOrd(j) <= LookupOpOrd(o)
         IN  <<k>> \o SortedKeys(S \ {k})

\* the lookup relation registered for physical column col_idx of the table,
\* gated by selector sel and querying input, output and index at [x][y]:
\* the constants the closure of cs.lookup computes from its clone of the table
StaticLookup(table, col_idx, sel, x, y, input, output, index) ==
    LET first == get_first_element(table, col_idx)
    IN  [selector   |-> sel,
         x          |-> x,
         y          |-> y,
         input      |-> input,
         output     |-> output,
         index      |-> index,
         len        |-> table.selector_constructor.degree,
         col_idx    |-> col_idx,
         multiplier |-> get_selector_val_at_idx(
                            table.selector_constructor.degree, col_idx),
         default_x  |-> first[1],
         default_y  |-> first[2],
         input_col  |-> table.table_inputs[col_idx + 1],
         output_col |-> table.table_outputs[col_idx + 1]]

\* the two expressions of a static lookup relation on a row where the
\* selector, the index, the input and the output take the given values
LookupExprs(lk, sel, index, input, output) ==
    LET synthetic_sel == IF lk.len = 1 THEN FFrom(1) ELSE index
        col_expr == FMul(sel, get_expr_at_idx(lk.len, lk.col_idx, synthetic_sel))
        not_expr == FSub(lk.multiplier, col_expr)
    IN  <<FAdd(FMul(col_expr, input),  FMul(not_expr, lk.default_x)),
          FAdd(FMul(col_expr, output), FMul(not_expr, lk.default_y))>>

\* the selectors and lookups the loops of configure_lookup add for the table
\* in block-major order: one complex selector per (x, y), one lookup per
\* (x, y, physical column)
ConfigureLookupLoops(sl, c, table, nl, input, output, index) ==
    LET B == input.num_blocks
        C == input.num_inner_cols
        n == Min(Len(table.table_inputs), Len(table.table_outputs))
        sel(x, y) == c.num_selectors + x * C + y + 1
        added == [q \in 1..(B * C * n) |->
                    LET x == (q - 1) \div (C * n)
                        y == ((q - 1) \div n) % C
                    IN  StaticLookup(table, (q - 1) % n, sel(x, y), x, y,
                                     input, output, index)]
        keys == {<<nl, x, y>> : x \in 0..(B - 1), y \in 0..(C - 1)}
    IN  [static_lookups |->
            [sl EXCEPT !.selectors =
                [k \in (DOMAIN sl.selectors) \cup keys |->
                    IF k \in keys THEN sel(k[2], k[3]) ELSE sl.selectors[k]]],
         cs |-> [c EXCEPT !.num_selectors = @ + B * C,
                          !.lookups = @ \o added]]

WrongInputType_index_unchecked(input, output, index) ==
    ~is_advice(input) \/ ~is_advice(output)

\* the three checks configure_lookup starts with
WrongInputType(input, output, index) ==
    ~is_advice(index) \/ ~is_advice(input) \/ ~is_advice(output)

AlreadyPresent_rejected(sl, c) ==
    [ret |-> "Err", branch |-> "already present",
     static_lookups |-> sl, cs |-> c]

\* the early return of configure_lookup for a nonlinearity of the registry
AlreadyPresent(sl, c) ==
    [ret |-> "Ok", branch |-> "already present",
     static_lookups |-> sl, cs |-> c]

\* BaseConfig::configure_lookup: what it returns and the registry and the
\* constraint system after it
configure_lookup(sl, c, input, output, index, lookup_range, logrows, nl) ==
    IF WrongInputType(input, output, index)
    THEN [ret |-> "Err", branch |-> "wrong input type",
          static_lookups |-> sl, cs |-> c]
    ELSE IF contains_key(sl.tables, nl)
    THEN AlreadyPresent(sl, c)
    ELSE
      LET keys == SortedKeys(DOMAIN sl.tables)
          conf == IF keys # <<>>
                  THEN Table_configure(c, lookup_range, logrows, nl,
                                       Some(sl.tables[keys[1]].table_inputs))
                  ELSE Table_configure(c, lookup_range, logrows, nl, None)
          sl1  == [sl EXCEPT !.tables = Insert(@, nl, conf.table)]
          loop == ConfigureLookupLoops(sl1, conf.cs, conf.table, nl,
                                       input, output, index)
          sl2  == loop.static_lookups
      IN  [ret |-> "Ok", branch |-> "configured",
           static_lookups |->
              [sl2 EXCEPT !.input  = IF @ = Empty THEN input ELSE @,
                          !.output = IF @ = Empty THEN output ELSE @,
                          !.index  = IF @ = Empty THEN index ELSE @],
           cs |-> loop.cs]

\* the Ord of Range = (i64, i64): lexicographic
RangeLeq(a, b) == a[1] < b[1] \/ (a[1] = b[1] /\ a[2] <= b[2])

\* the keys of the range-check registry in key order
RECURSIVE SortedRanges(_)
SortedRanges(S) ==
    IF S = {} THEN <<>>
    ELSE LET k == CHOOSE j \in S : \A o \in S : RangeLeq(j, o)
         IN  <<k>> \o SortedRanges(S \ {k})

\* the lookup relation registered for physical column col_idx of the range
\* check, with the constants the closure of cs.lookup computes
RangeLookup(rc, col_idx, sel, x, y, input, index) ==
    [selector   |-> sel,
     x          |-> x,
     y          |-> y,
     input      |-> input,
     index      |-> index,
     len        |-> rc.selector_constructor.degree,
     col_idx    |-> col_idx,
     multiplier |-> get_selector_val_at_idx(rc.selector_constructor.degree,
                                            col_idx),
     default_x  |-> RangeCheck_get_first_element(rc, col_idx),
     input_col  |-> rc.inputs[col_idx + 1]]

\* the expression of a range-check lookup relation on a row where the
\* selector, the index and the input take the given values
RangeLookupExpr(lk, sel, index, input) ==
    LET synthetic_sel == IF lk.len = 1 THEN FFrom(1) ELSE index
        col_expr == FMul(sel, get_expr_at_idx(lk.len, lk.col_idx, synthetic_sel))
        not_expr == FSub(lk.multiplier, col_expr)
    IN  FAdd(FMul(col_expr, input), FMul(not_expr, lk.default_x))

\* BaseConfig::configure_range_check.  The index tensor is read only inside
\* the lookup closures, and only when the range check has several columns:
\* there an index that is not advice reaches unreachable!()
configure_range_check(rcs, c, input, index, range, logrows) ==
    IF ~is_advice(input)
    THEN [ret |-> "Err", branch |-> "wrong input type",
          range_checks |-> rcs, cs |-> c]
    ELSE IF contains_key(rcs.ranges, range)
    THEN [ret |-> "Ok", branch |-> "already present",
          range_checks |-> rcs, cs |-> c]
    ELSE
      LET conf == RangeCheck_configure(c, range, logrows)
          rc   == conf.range_check
          rcs1 == [rcs EXCEPT !.ranges = Insert(@, range, rc)]
          B == input.num_blocks
          C == input.num_inner_cols
          n == Len(rc.inputs)
          sel(x, y) == conf.cs.num_selectors + x * C + y + 1
          added == [q \in 1..(B * C * n) |->
                      LET x == (q - 1) \div (C * n)
                          y == ((q - 1) \div n) % C
                      IN  RangeLookup(rc, (q - 1) % n, sel(x, y), x, y,
                                      input, index)]
          keys == {<<range, x, y>> : x \in 0..(B - 1), y \in 0..(C - 1)}
      IN  IF rc.selector_constructor.degree # 1 /\ ~is_advice(index)
               /\ B * C > 0
          THEN [ret |-> "panic", branch |-> "configured",
                range_checks |-> rcs1,
                cs |-> [conf.cs EXCEPT !.num_selectors = @ + 1]]
          ELSE [ret |-> "Ok", branch |-> "configured",
                range_checks |->
                   [rcs1 EXCEPT
                      !.selectors =
                         [k \in (DOMAIN rcs.selectors) \cup keys |->
                             IF k \in keys THEN sel(k[2], k[3])
                             ELSE rcs.selectors[k]],
                      !.input = IF @ = Empty THEN input ELSE @,
                      !.index = IF @ = Empty THEN index ELSE @],
                cs |-> [conf.cs EXCEPT !.num_selectors = @ + B * C,
                                       !.lookups = @ \o added]]

RECURSIVE layout_range_checks_from(_, _, _, _)
\* the loop of layout_range_checks from the i-th range check on
layout_range_checks_from(keys, i, ranges, st) ==
    IF i > Len(keys) THEN [ranges |-> ranges, st |-> st]
    ELSE IF ranges[keys[i]].is_assigned
         THEN layout_range_checks_from(keys, i + 1, ranges, st)
         ELSE LET r  == RangeCheck_layout(ranges[keys[i]], st)
                  r1 == [ranges EXCEPT ![keys[i]] = r.range_check]
              IN  IF r.st.ret # "Ok" THEN [ranges |-> r1, st |-> r.st]
                  ELSE layout_range_checks_from(keys, i + 1, r1, r.st)

\* BaseConfig::layout_range_checks
layout_range_checks(ranges, st) ==
    layout_range_checks_from(SortedRanges(DOMAIN ranges), 1, ranges, st)

PreassignedInput_never(i) == FALSE

\* the preassigned_input layout_tables passes to the i-th table (from 1) of
\* the registry
PreassignedInput(i) == i # 1

RECURSIVE layout_tables_from(_, _, _, _)
\* the loop of layout_tables from the i-th table of the registry on
layout_tables_from(keys, i, tables, st) ==
    IF i > Len(keys) THEN [tables |-> tables, st |-> st]
    ELSE IF tables[keys[i]].is_assigned
         THEN layout_tables_from(keys, i + 1, tables, st)
         ELSE LET r  == Table_layout(tables[keys[i]], st, PreassignedInput(i))
                  t1 == [tables EXCEPT ![keys[i]] = r.table]
              IN  IF r.st.ret # "Ok" THEN [tables |-> t1, st |-> r.st]
                  ELSE layout_tables_from(keys, i + 1, t1, r.st)

\* BaseConfig::layout_tables
layout_tables(tables, st) ==
    layout_tables_from(SortedKeys(DOMAIN tables), 1, tables, st)

----------------------------------------------------------------------------
(* BaseConfig::layout and the operation it lays out *)

\* an element of a ValTensor: a known field value, or an unknown (as during
\* key generation)
Known(v) == [unknown |-> FALSE, v |-> v]
Unknown  == [unknown |-> TRUE, v |-> 0]

\* ValTensor::any_unknowns
any_unknowns(t) == \E k \in DOMAIN t : t[k].unknown

\* Result<Option<ValTensor<F>>, Box<dyn Error>>
OkSome(t) == [tag |-> "Ok",  some |-> TRUE,  val |-> t,    err |-> ""]
OkNone    == [tag |-> "Ok",  some |-> FALSE, val |-> <<>>, err |-> ""]
Err(e)    == [tag |-> "Err", some |-> FALSE, val |-> <<>>, err |-> e]

\* the operations laid out: two element-wise operations on two inputs
Ops == {"Add", "Mult"}

\* the operation evaluated as a pure function of concrete inputs
Op_f(op, values) ==
    LET a == values[1][1].v
        b == values[2][1].v
    IN  <<Known(IF op = "Add" THEN FAdd(a, b) ELSE FMul(a, b))>>

\* Op::safe_mode_check(claimed_output, values): the claimed output must be
\* the pure-function evaluation of the operation
safe_mode_check(op, claimed_output, values) ==
    IF claimed_output = Op_f(op, values) THEN "Ok" ELSE "Err"

BaseConfig_layout_unchecked(mode, is_dummy, values, op, res) ==
    [ret |-> res, checked |-> FALSE]

BaseConfig_layout_checks_dummy(mode, is_dummy, values, op, res) ==
    IF res.tag = "Err" THEN [ret |-> res, checked |-> FALSE]
    ELSE IF mode = "SAFE" /\ res.some
    THEN IF safe_mode_check(op, res.val, values) = "Ok"
         THEN [ret |-> res, checked |-> TRUE]
         ELSE [ret |-> Err("safe mode check failed"), checked |-> TRUE]
    ELSE [ret |-> res, checked |-> FALSE]

\* BaseConfig::layout(region, values, op), where res is what op.layout
\* returned: what layout returns and whether safe_mode_check was invoked
BaseConfig_layout(mode, is_dummy, values, op, res) ==
    IF res.tag = "Err" THEN [ret |-> res, checked |-> FALSE]
    ELSE IF mode = "SAFE" /\ ~is_dummy /\ res.some
    THEN LET is_assigned == /\ ~any_unknowns(res.val)
                            /\ \A k \in DOMAIN values : ~any_unknowns(values[k])
         IN  IF is_assigned
             THEN IF safe_mode_check(op, res.val, values) = "Ok"
                  THEN [ret |-> res, checked |-> TRUE]
                  ELSE [ret |-> Err("safe mode check failed"), checked |-> TRUE]
             ELSE [ret |-> res, checked |-> FALSE]
    ELSE [ret |-> res, checked |-> FALSE]

----------------------------------------------------------------------------
(* DynamicLookups and Shuffles *)

\* DynamicLookups::default(): no selector, no input, no table
DynamicLookups_default ==
    [lookup_selectors |-> <<>>, table_selectors |-> <<>>,
     inputs |-> <<>>, tables |-> <<>>]

\* Shuffles::default(): no selector, no input, no reference
Shuffles_default ==
    [input_selectors |-> <<>>, reference_selectors |-> <<>>,
     inputs |-> <<>>, references |-> <<>>]

\* CustomGates::default(): no input, no output, no selector.  The custom
\* gates take no part in the lookup, range-check and layout calls, which are
\* modelled on a BaseConfig without them.
CustomGates_default ==
    [inputs |-> <<>>, output |-> Empty, selectors |-> <<>>]

\* the base operations with a gate per (block, inner column), in the order
\* configure allocates their selectors
NonAccumOps == <<"Add", "Sub", "Mult", "IsBoolean">>

\* the base operations with a gate per block, in the order configure
\* allocates their selectors
AccumOps == <<"DotInit", "Dot", "CumProd", "CumProdInit", "Sum", "SumInit">>

\* nonaccum_selectors: meta.selector() per (block, inner column, op)
NonAccumSelectors(B, C, base) ==
    [k \in {<<NonAccumOps[o], i, j>> :
               o \in DOMAIN NonAccumOps, i \in 0..(B - 1), j \in 0..(C - 1)}
       |-> LET o == CHOOSE o \in DOMAIN NonAccumOps : NonAccumOps[o] = k[1]
           IN  base + (k[2] * C + k[3]) * Len(NonAccumOps) + o]

AccumSelectors_per_inner_col(B, C, base) ==
    [k \in {<<AccumOps[o], i, j>> :
               o \in DOMAIN AccumOps, i \in 0..(B - 1), j \in 0..(C - 1)}
       |-> LET o == CHOOSE o \in DOMAIN AccumOps : AccumOps[o] = k[1]
           IN  base + (k[2] * C + k[3]) * Len(AccumOps) + o]

\* accum_selectors: meta.selector() per (block, op), inner column 0
AccumSelectors(B, C, base) ==
    [k \in {<<AccumOps[o], i, 0>> : o \in DOMAIN AccumOps, i \in 0..(B - 1)}
       |-> LET o == CHOOSE o \in DOMAIN AccumOps : AccumOps[o] = k[1]
           IN  base + k[2] * Len(AccumOps) + o]

\* BaseConfig::configure(meta, inputs, output, check_mode): the BaseConfig
\* it returns, and the constraint system and its gates after it
BaseConfig_configure(c, g, inputs, output, mode) ==
    LET B == output.num_blocks
        C == output.num_inner_cols
        nonaccum_selectors == NonAccumSelectors(B, C, c.num_selectors)
        n1 == Cardinality(DOMAIN nonaccum_selectors)
        accum_selectors == AccumSelectors(B, C, c.num_selectors + n1)
        n2 == Cardinality(DOMAIN accum_selectors)
        selectors == [k \in (DOMAIN nonaccum_selectors)
                              \cup (DOMAIN accum_selectors) |->
                         IF k \in DOMAIN nonaccum_selectors
                         THEN nonaccum_selectors[k] ELSE accum_selectors[k]]
        created == {[base_op |-> k[1], block_idx |-> k[2],
                     inner_col_idx |-> k[3], selector |-> selectors[k]] :
                       k \in DOMAIN selectors}
    IN  [custom_gates |-> [inputs |-> inputs, output |-> output,
                           selectors |-> selectors],
         static_lookups |-> [selectors |-> <<>>, tables |-> <<>>,
                             index |-> Empty, output |-> Empty,
                             input |-> Empty],
         dynamic_lookups |-> DynamicLookups_default,
         shuffles |-> Shuffles_default,
         range_checks |-> [selectors |-> <<>>, ranges |-> <<>>,
                           index |-> Empty, input |-> Empty],
         check_mode |-> mode,
         cs |-> [c EXCEPT !.num_selectors = @ + n1 + n2],
         gates |-> g \cup created]

\* an advice VarTensor on the advice columns starting at col
AdviceCol(col, blocks, inner_cols) ==
    [kind |-> "Advice", num_blocks |-> blocks, num_inner_cols |-> inner_cols,
     col |-> col]

WrongTableType_kind_only(t) == ~is_advice(t)

\* the check of a table or reference column: advice, of one block and one
\* inner column
WrongTableType(t) ==
    ~is_advice(t) \/ t.num_blocks > 1 \/ t.num_inner_cols > 1

AssignAlways(old, new) == new

\* the registry keeps the columns it has; an empty one takes the new ones
AssignIfEmpty(old, new) == IF old = <<>> THEN new ELSE old

\* the loops of configure_dynamic_lookup and configure_shuffles: a selector
\* for the table side, then per (x, y) of the first input a selector and a
\* lookup-any relation; the selector of (x, y) is kept by entry().or_insert
LookupAnyLoops(c, selectors, inputs, tables) ==
    LET B == inputs[1].num_blocks
        C == inputs[1].num_inner_cols
        s_table == c.num_selectors + 1
        s_input(x, y) == s_table + x * C + y + 1
        keys  == {<<x, y>> : x \in 0..(B - 1), y \in 0..(C - 1)}
        added == [q \in 1..(B * C) |->
                    [kind    |-> "lookup_any",
                     s_input |-> s_table + q,
                     s_table |-> s_table,
                     x       |-> (q - 1) \div C,
                     y       |-> (q - 1) % C,
                     inputs  |-> inputs,
                     tables  |-> tables]]
    IN  [panics |-> \E k \in DOMAIN inputs :
                       \/ inputs[k].num_blocks < B
                       \/ inputs[k].num_inner_cols < C,
         s_table |-> s_table,
         selectors |-> [k \in (DOMAIN selectors) \cup keys |->
                          IF k \in DOMAIN selectors THEN selectors[k]
                          ELSE s_input(k[1], k[2])],
         cs |-> [c EXCEPT !.num_selectors = @ + 1 + B * C,
                          !.lookups = @ \o added]]

\* BaseConfig::configure_dynamic_lookup
configure_dynamic_lookup(dl, c, lookups, tables) ==
    IF \E k \in DOMAIN lookups : ~is_advice(lookups[k])
    THEN [ret |-> "Err", branch |-> "wrong input type",
          dynamic_lookups |-> dl, cs |-> c]
    ELSE IF \E k \in DOMAIN tables : WrongTableType(tables[k])
    THEN [ret |-> "Err", branch |-> "wrong table type",
          dynamic_lookups |-> dl, cs |-> c]
    ELSE
      LET l == LookupAnyLoops(c, dl.lookup_selectors, lookups, tables)
      IN  IF l.panics
          THEN [ret |-> "panic", branch |-> "configured",
                dynamic_lookups |-> dl, cs |-> l.cs]
          ELSE [ret |-> "Ok", branch |-> "configured",
                dynamic_lookups |->
                   [lookup_selectors |-> l.selectors,
                    table_selectors  |-> Append(dl.table_selectors, l.s_table),
                    tables |-> AssignIfEmpty(dl.tables, tables),
                    inputs |-> AssignIfEmpty(dl.inputs, lookups)],
                cs |-> l.cs]

\* BaseConfig::configure_shuffles
configure_shuffles(sh, c, inputs, references) ==
    IF \E k \in DOMAIN inputs : ~is_advice(inputs[k])
    THEN [ret |-> "Err", branch |-> "wrong input type",
          shuffles |-> sh, cs |-> c]
    ELSE IF \E k \in DOMAIN references : WrongTableType(references[k])
    THEN [ret |-> "Err", branch |-> "wrong table type",
          shuffles |-> sh, cs |-> c]
    ELSE
      LET l == LookupAnyLoops(c, sh.input_selectors, inputs, references)
      IN  IF l.panics
          THEN [ret |-> "panic", branch |-> "configured",
                shuffles |-> sh, cs |-> l.cs]
          ELSE [ret |-> "Ok", branch |-> "configured",
                shuffles |->
                   [input_selectors |-> l.selectors,
                    reference_selectors |->
                        Append(sh.reference_selectors, l.s_table),
                    references |-> AssignIfEmpty(sh.references, references),
                    inputs |-> AssignIfEmpty(sh.inputs, inputs)],
                cs |-> l.cs]

----------------------------------------------------------------------------
(* The state machine *)

CheckModes == {"SAFE", "UNSAFE"}

\* the layouter state a layout call starts from
Layouter == [fixed |-> fixed, used_columns |-> used_columns,
             writes |-> <<>>, ret |-> "Ok", failing |-> {}]

\* the sets of nonlinearities whose evaluation may fail during one call:
\* none, or one nonlinearity
Failing == {{}} \cup {{nl} : nl \in LookupOps}

\* the state after BaseConfig::configure: empty registries
Init ==
    /\ cs \in {[blinding_factors |-> b, num_table_columns |-> 0,
                num_selectors |-> 0, lookups |-> <<>>] : b \in 5..MaxBlinding}
    /\ check_mode = "SAFE"
    /\ static_lookups = [selectors |-> <<>>, tables |-> <<>>,
                         index |-> Empty, output |-> Empty, input |-> Empty]
    /\ range_checks = [selectors |-> <<>>, ranges |-> <<>>,
                       index |-> Empty, input |-> Empty]
    /\ dynamic_lookups = DynamicLookups_default
    /\ shuffles = Shuffles_default
    /\ custom_gates = CustomGates_default
    /\ gates = {}
    /\ fixed = <<>>
    /\ used_columns = {}
    /\ last = [call |-> "configure"]
    /\ panicked = FALSE

\* The static-lookup registry and the range-check registry share nothing but
\* the allocation counters of the constraint system: a run of the model
\* populates one of the two.
NoTables == DOMAIN static_lookups.tables = {}
NoRangeChecks == DOMAIN range_checks.ranges = {}

\* the tensors of one call: one shape, each of the three advice or not
ConfigureLookup ==
    /\ ~panicked
    /\ NoRangeChecks
    /\ \E ka, kb, kc \in BOOLEAN,
          lookup_range \in RangeArgs, logrows \in LogRowsArgs, nl \in LookupOps :
         LET t(k) == IF k THEN Advice(MaxBlocks, MaxInnerCols) ELSE Dummy
             r == configure_lookup(static_lookups, cs, t(ka), t(kb), t(kc),
                                   lookup_range, logrows, nl)
         IN  /\ static_lookups' = r.static_lookups
             /\ cs' = r.cs
             /\ last' = [call |-> "configure_lookup", nl |-> nl,
                         all_advice |-> (ka /\ kb /\ kc),
                         logrows |-> logrows,
                         ret |-> r.ret, branch |-> r.branch]
    /\ UNCHANGED <<custom_gates, gates, dynamic_lookups, shuffles, check_mode, range_checks, fixed, used_columns, panicked>>

\* Table::layout called on a table of the registry
TableLayout ==
    /\ ~panicked
    /\ NoRangeChecks
    /\ \E nl \in DOMAIN static_lookups.tables, preassigned_input \in BOOLEAN,
          failing \in Failing :
         LET r == Table_layout(static_lookups.tables[nl],
                               [Layouter EXCEPT !.failing = failing],
                               preassigned_input)
         IN  /\ static_lookups' =
                    [static_lookups EXCEPT !.tables[nl] = r.table]
             /\ fixed' = r.st.fixed
             /\ used_columns' = r.st.used_columns
             /\ panicked' = (r.st.ret = "panic")
             /\ last' = [call |-> "Table::layout", nl |-> nl,
                         preassigned_input |-> preassigned_input,
                         ret |-> r.st.ret, writes |-> r.st.writes]
    /\ UNCHANGED <<custom_gates, gates, dynamic_lookups, shuffles, cs, check_mode, range_checks>>

LayoutTables ==
    /\ ~panicked
    /\ NoRangeChecks
    /\ \E failing \in Failing :
       LET r == layout_tables(static_lookups.tables,
                              [Layouter EXCEPT !.failing = failing])
       IN  /\ static_lookups' = [static_lookups EXCEPT !.tables = r.tables]
           /\ fixed' = r.st.fixed
           /\ used_columns' = r.st.used_columns
           /\ panicked' = (r.st.ret = "panic")
           /\ last' = [call |-> "layout_tables", ret |-> r.st.ret,
                       writes |-> r.st.writes]
    /\ UNCHANGED <<custom_gates, gates, dynamic_lookups, shuffles, cs, check_mode, range_checks>>

ConfigureRangeCheck ==
    /\ ~panicked
    /\ NoTables
    /\ \E ka, kb \in BOOLEAN, range \in RangeArgs, logrows \in LogRowsArgs :
         LET t(k) == IF k THEN Advice(MaxBlocks, MaxInnerCols) ELSE Dummy
             r == configure_range_check(range_checks, cs, t(ka), t(kb),
                                        range, logrows)
         IN  /\ range_checks' = r.range_checks
             /\ cs' = r.cs
             /\ panicked' = (r.ret = "panic")
             /\ last' = [call |-> "configure_range_check", range |-> range,
                         input_advice |-> ka, index_advice |-> kb,
                         logrows |-> logrows,
                         ret |-> r.ret, branch |-> r.branch]
    /\ UNCHANGED <<custom_gates, gates, dynamic_lookups, shuffles, check_mode, static_lookups, fixed, used_columns>>

\* RangeCheck::layout called on a range check of the registry
RangeCheckLayout ==
    /\ ~panicked
    /\ NoTables
    /\ \E range \in DOMAIN range_checks.ranges :
         LET r == RangeCheck_layout(range_checks.ranges[range], Layouter)
         IN  /\ range_checks' =
                    [range_checks EXCEPT !.ranges[range] = r.range_check]
             /\ fixed' = r.st.fixed
             /\ used_columns' = r.st.used_columns
             /\ panicked' = (r.st.ret = "panic")
             /\ last' = [call |-> "RangeCheck::layout", range |-> range,
                         ret |-> r.st.ret, writes |-> r.st.writes]
    /\ UNCHANGED <<custom_gates, gates, dynamic_lookups, shuffles, cs, check_mode, static_lookups>>

LayoutRangeChecks ==
    /\ ~panicked
    /\ NoTables
    /\ LET r == layout_range_checks(range_checks.ranges, Layouter)
       IN  /\ range_checks' = [range_checks EXCEPT !.ranges = r.ranges]
           /\ fixed' = r.st.fixed
           /\ used_columns' = r.st.used_columns
           /\ panicked' = (r.st.ret = "panic")
           /\ last' = [call |-> "layout_range_checks", ret |-> r.st.ret,
                       writes |-> r.st.writes]
    /\ UNCHANGED <<custom_gates, gates, dynamic_lookups, shuffles, cs, check_mode, static_lookups>>

Next ==
    \/ ConfigureLookup
    \/ TableLayout
    \/ LayoutTables
    \/ ConfigureRangeCheck
    \/ RangeCheckLayout
    \/ LayoutRangeChecks

Spec == Init /\ [][Next]_vars

----------------------------------------------------------------------------
(* BaseConfig::layout on its own.  It reads check_mode only, so its        *)
(* specification starts from a BaseConfig configured with either mode.     *)

InitLayout ==
    /\ cs \in {[blinding_factors |-> b, num_table_columns |-> 0,
                num_selectors |-> 0, lookups |-> <<>>] : b \in 5..MaxBlinding}
    /\ check_mode \in CheckModes
    /\ static_lookups = [selectors |-> <<>>, tables |-> <<>>,
                         index |-> Empty, output |-> Empty, input |-> Empty]
    /\ range_checks = [selectors |-> <<>>, ranges |-> <<>>,
                       index |-> Empty, input |-> Empty]
    /\ dynamic_lookups = DynamicLookups_default
    /\ shuffles = Shuffles_default
    /\ custom_gates = CustomGates_default
    /\ gates = {}
    /\ fixed = <<>>
    /\ used_columns = {}
    /\ last = [call |-> "configure"]
    /\ panicked = FALSE

\* the elements of the values passed to layout and of the output op.layout
\* claims
ElementArgs == {Known(v) : v \in 0..MaxElement} \cup {Unknown}

\* what op.layout may return: an error, no output, or a claimed output
OpLayoutResults ==
    {Err("op layout failed"), OkNone} \cup {OkSome(<<e>>) : e \in ElementArgs}

Layout ==
    /\ \E a, b \in ElementArgs, op \in Ops, is_dummy \in BOOLEAN,
          res \in OpLayoutResults :
         LET values == <<(<<a>>), (<<b>>)>>
             r == BaseConfig_layout(check_mode, is_dummy, values, op, res)
         IN  last' = [call |-> "layout", op |-> op, values |-> values,
                      is_dummy |-> is_dummy, op_layout |-> res,
                      checked |-> r.checked, ret |-> r.ret]
    /\ UNCHANGED <<custom_gates, gates, dynamic_lookups, shuffles, cs, check_mode, static_lookups, range_checks, fixed,
                   used_columns, panicked>>

SpecLayout == InitLayout /\ [][Layout]_vars

----------------------------------------------------------------------------
(* SelectorConstructor on its own: the two functions applied to every      *)
(* degree, index and index value of the bounds.                            *)

\* the values the index expression takes
IndexValues == {i64_to_felt(k) : k \in -1..MaxDegree}

GetExprAtIdx ==
    /\ \E degree \in 1..MaxDegree, e \in IndexValues :
         \E i \in 0..(degree - 1) :
            last' = [call |-> "get_expr_at_idx", degree |-> degree, i |-> i,
                     e |-> e, ret |-> get_expr_at_idx(degree, i, e)]
    /\ UNCHANGED <<custom_gates, gates, dynamic_lookups, shuffles, cs, check_mode, static_lookups, range_checks, fixed,
                   used_columns, panicked>>

GetSelectorValAtIdx ==
    /\ \E degree \in 1..MaxDegree :
         \E i \in 0..(degree - 1) :
            last' = [call |-> "get_selector_val_at_idx", degree |-> degree,
                     i |-> i, ret |-> get_selector_val_at_idx(degree, i)]
    /\ UNCHANGED <<custom_gates, gates, dynamic_lookups, shuffles, cs, check_mode, static_lookups, range_checks, fixed,
                   used_columns, panicked>>

SpecSelector == Init /\ [][GetExprAtIdx \/ GetSelectorValAtIdx]_vars

----------------------------------------------------------------------------
(* C1.  For every degree d >= 1 and all i, i' in [0,d) with i # i',        *)
(* get_expr_at_idx(i, e) evaluated with e = i' is zero, and evaluated with *)
(* e = i it equals get_selector_val_at_idx(i), which is nonzero.           *)
C1_Orthogonality ==
    last.call = "get_expr_at_idx" =>
        /\ \A j \in 0..(last.degree - 1) :
              (j # last.i /\ last.e = FFrom(j)) => last.ret = 0
        /\ last.e = FFrom(last.i) =>
              /\ last.ret = get_selector_val_at_idx(last.degree, last.i)
              /\ last.ret # 0

\* get_expr_at_idx was evaluated at another index of a degree of 3 or more
C1_Witness ==
    /\ last.call = "get_expr_at_idx"
    /\ last.degree >= 3
    /\ last.i = 1
    /\ last.e = FFrom(2)
    /\ last.ret = 0


----------------------------------------------------------------------------
(* C2.  After Table::layout succeeds on an unassigned table with           *)
(* preassigned_input = false, for every integer v of the range the cell at *)
(* column (v - lo) div col_size, row (v - lo) mod col_size holds v * m in  *)
(* the input column and nonlinearity(v) * m in the output column, with     *)
(* m = get_selector_val_at_idx of that column; m is nonzero, and unscaling *)
(* by m recovers (v, nonlinearity(v)).                                     *)
C2_RoundTrip ==
    (last.call = "Table::layout" /\ last.ret = "Ok"
        /\ ~last.preassigned_input) =>
      LET t == static_lookups.tables[last.nl]
      IN  \A v \in t.range[1]..t.range[2] :
            LET column == (v - t.range[1]) \div t.col_size
                row    == (v - t.range[1]) % t.col_size
                m      == get_selector_val_at_idx(
                              t.selector_constructor.degree, column)
                cin    == <<t.table_inputs[column + 1], row>>
                cout   == <<t.table_outputs[column + 1], row>>
                fv     == LookupOp_f(t.nonlinearity, i64_to_felt(v))
            IN  /\ column < Len(t.table_inputs)
                /\ cin \in DOMAIN fixed
                /\ cout \in DOMAIN fixed
                /\ fixed[cin] = FMul(i64_to_felt(v), m)
                /\ fixed[cout] = FMul(fv, m)
                /\ m # 0
                /\ FMul(fixed[cin], FInv(m)) = i64_to_felt(v)
                /\ FMul(fixed[cout], FInv(m)) = fv

\* a table of three chunks was laid out, its own inputs included
C2_Witness ==
    /\ last.call = "Table::layout"
    /\ last.ret = "Ok"
    /\ ~last.preassigned_input
    /\ static_lookups.tables[last.nl].selector_constructor.degree = 3
    /\ Len(last.writes) = 2 * (MaxHi + 3)

(* C3.  Calling layout again on a Table or RangeCheck that is already      *)
(* assigned returns TableAlreadyAssigned, writes no cell, and leaves the   *)
(* table contents and is_assigned as the first call left them.             *)
C3_SecondLayoutRejected ==
    [][ /\ (/\ last'.call = "Table::layout"
            /\ last' # last
            /\ static_lookups.tables[last'.nl].is_assigned)
           => /\ last'.ret = "TableAlreadyAssigned"
              /\ last'.writes = <<>>
              /\ fixed' = fixed
              /\ used_columns' = used_columns
              /\ static_lookups' = static_lookups
        /\ (/\ last'.call = "RangeCheck::layout"
            /\ last' # last
            /\ range_checks.ranges[last'.range].is_assigned)
           => /\ last'.ret = "TableAlreadyAssigned"
              /\ last'.writes = <<>>
              /\ fixed' = fixed
              /\ used_columns' = used_columns
              /\ range_checks' = range_checks ]_vars

\* a second Table::layout was rejected, the cells of the first still there
C3_Witness ==
    /\ last.call = "Table::layout"
    /\ last.ret = "TableAlreadyAssigned"
    /\ static_lookups.tables[last.nl].is_assigned
    /\ \E v \in DOMAIN fixed :
          v[1] \in {static_lookups.tables[last.nl].table_outputs[k] :
                      k \in DOMAIN static_lookups.tables[last.nl].table_outputs}

(* C6.  configure_lookup invoked with a nonlinearity already in the        *)
(* registry leaves the registry unchanged: the tables and the selectors    *)
(* of the registry, and the columns, selectors and lookup relations of the *)
(* constraint system, are after the call what they were before it.         *)
C6_ReconfigureIsNoOp ==
    [][ (/\ last'.call = "configure_lookup"
         /\ last'.nl \in DOMAIN static_lookups.tables)
        => /\ static_lookups' = static_lookups
           /\ Cardinality(DOMAIN static_lookups'.tables)
                = Cardinality(DOMAIN static_lookups.tables)
           /\ Cardinality(DOMAIN static_lookups'.selectors)
                = Cardinality(DOMAIN static_lookups.selectors)
           /\ cs' = cs ]_vars

\* configure_lookup took its early return, with a table in the registry
C6_Witness ==
    /\ last.call = "configure_lookup"
    /\ last.branch = "already present"
    /\ last.nl \in DOMAIN static_lookups.tables
    /\ Len(cs.lookups) > 0

(* C7, as stated.  configure_lookup invoked for a nonlinearity already in  *)
(* the registry returns Ok, whatever the input, output and index columns   *)
(* and the range of that call.                                             *)
C7_AlwaysOk ==
    [][ (/\ last'.call = "configure_lookup"
         /\ last'.nl \in DOMAIN static_lookups.tables)
        => last'.ret = "Ok" ]_vars

(* C7, amended.  configure_lookup invoked for a nonlinearity already in    *)
(* the registry, with an input, an output and an index column that are all *)
(* of the advice kind, returns Ok, whatever the range of that call.        *)
C7_OkForAdviceColumns ==
    [][ (/\ last'.call = "configure_lookup"
         /\ last'.nl \in DOMAIN static_lookups.tables
         /\ last'.all_advice)
        => last'.ret = "Ok" ]_vars

\* a call with advice columns returned Ok for a registered nonlinearity
C7_Witness ==
    /\ last.call = "configure_lookup"
    /\ last.all_advice
    /\ last.branch = "already present"
    /\ last.ret = "Ok"

(* C10.  Table::configure never gives a table more input columns, nor more *)
(* output columns, than num_cols_required(|hi - lo|, col_size), whether    *)
(* the input columns are freshly allocated or reused.                      *)
C10_ColumnsWithinRequired ==
    \A nl \in DOMAIN static_lookups.tables :
       LET t == static_lookups.tables[nl]
           required == num_cols_required(Abs(t.range[2] - t.range[1]),
                                         t.col_size)
       IN  /\ Len(t.table_inputs) <= required
           /\ Len(t.table_outputs) <= required


\* every input of the last layout call and the output op.layout claimed are
\* concrete
AllConcrete ==
    /\ ~any_unknowns(last.op_layout.val)
    /\ \A k \in DOMAIN last.values : ~any_unknowns(last.values[k])

(* C8.  When BaseConfig::layout runs against a non-dummy region and the    *)
(* operation's layout returns a claimed output, every input and the output *)
(* concrete: in SAFE mode a claimed output that differs from the           *)
(* operation's pure-function evaluation is reported as an error; in UNSAFE *)
(* mode the same mismatch is not flagged and layout returns the            *)
(* operation's output.                                                     *)
C8_SafeModeCatchesMismatch ==
    (/\ last.call = "layout"
     /\ ~last.is_dummy
     /\ last.op_layout.tag = "Ok"
     /\ last.op_layout.some
     /\ AllConcrete
     /\ last.op_layout.val # Op_f(last.op, last.values))
    => /\ check_mode = "SAFE" => last.ret.tag = "Err"
       /\ check_mode = "UNSAFE" => last.ret = last.op_layout

\* SAFE mode reported a claimed product of 1 for the inputs 1 and 0
C8_Witness ==
    /\ last.call = "layout"
    /\ check_mode = "SAFE"
    /\ ~last.is_dummy
    /\ last.op = "Mult"
    /\ last.values = <<(<<Known(1)>>), (<<Known(0)>>)>>
    /\ last.op_layout = OkSome(<<Known(1)>>)
    /\ last.ret.tag = "Err"

----------------------------------------------------------------------------
(* The lookup argument over laid-out tables *)

\* the value a table column holds on a row once the tables are assigned: the
\* cell written there; on the rows past the last written one the value of
\* row 0, with which assign_table pads the column; zero in a column no
\* assign_table call wrote
CellValue(column, row) ==
    IF <<column, row>> \in DOMAIN fixed THEN fixed[<<column, row>>]
    ELSE IF column \in used_columns /\ <<column, 0>> \in DOMAIN fixed
    THEN fixed[<<column, 0>>]
    ELSE 0

\* the rows of the pair of table columns a lookup relation looks up in
TableRows(lk, t) ==
    {<<CellValue(lk.input_col, r), CellValue(lk.output_col, r)>> :
        r \in 0..(t.col_size + RESERVED_BLINDING_ROWS_PAD - 2)}

\* the pairs written on one row of the pair of table columns of a relation
WrittenRows(lk, t) ==
    {<<fixed[<<lk.input_col, r>>], fixed[<<lk.output_col, r>>]>> :
        r \in {r \in 0..(t.col_size - 1) :
                 /\ <<lk.input_col, r>> \in DOMAIN fixed
                 /\ <<lk.output_col, r>> \in DOMAIN fixed}}

\* the lookup relations configure_lookup registered for table t
LookupsOf(t) ==
    {q \in DOMAIN cs.lookups :
        /\ "output_col" \in DOMAIN cs.lookups[q]
        /\ \E k \in DOMAIN t.table_outputs :
              t.table_outputs[k] = cs.lookups[q].output_col}

\* a lookup relation holds on a row with these witnesses
LookupSatisfied(lk, t, sel, index, input, output) ==
    LookupExprs(lk, sel, index, input, output) \in TableRows(lk, t)

\* the values the input and the output witness of a row take
Witnesses == {i64_to_felt(v) : v \in -3..(MaxHi + 1)}

\* the tables the last call laid out, when every cell of the fixed columns
\* was written by that call: all of them for layout_tables, the one table a
\* Table::layout call wrote the inputs and the outputs of
LaidOutTables ==
    IF /\ last.call = "layout_tables"
       /\ last.ret = "Ok"
       /\ Len(last.writes) = Cardinality(DOMAIN fixed)
    THEN DOMAIN static_lookups.tables
    ELSE IF /\ last.call = "Table::layout"
            /\ last.ret = "Ok"
            /\ ~last.preassigned_input
            /\ Len(last.writes) = Cardinality(DOMAIN fixed)
    THEN {last.nl}
    ELSE {}

\* column i is not the selected chunk of a row
NotSelected(t, i, sel, index) ==
    \/ sel = 0
    \/ /\ t.selector_constructor.degree > 1
       /\ \E j \in 0..(t.selector_constructor.degree - 1) :
             j # i /\ index = FFrom(j)

(* C4.  For a table configured by configure_lookup and then laid out, for  *)
(* every physical column i and every row where column i is not the         *)
(* selected chunk (selector 0, or index equal to some j # i in             *)
(* [0, degree)), the lookup expressions of column i evaluate to            *)
(* (m_i * default_x_i, m_i * default_y_i), and that pair is present in     *)
(* column i of the laid-out table, so that the relation holds on the row.  *)
C4_UnselectedMatchesDefault ==
    \A nl \in LaidOutTables :
       LET t == static_lookups.tables[nl]
       IN  \A q \in LookupsOf(t) :
             LET lk    == cs.lookups[q]
                 i     == lk.col_idx
                 m     == get_selector_val_at_idx(
                              t.selector_constructor.degree, i)
                 first == get_first_element(t, i)
                 pair  == <<FMul(m, first[1]), FMul(m, first[2])>>
             IN  /\ pair \in WrittenRows(lk, t)
                 /\ \A sel \in {0, 1}, index \in IndexValues,
                       input \in Witnesses, output \in Witnesses :
                       NotSelected(t, i, sel, index) =>
                          /\ LookupExprs(lk, sel, index, input, output) = pair
                          /\ LookupSatisfied(lk, t, sel, index, input, output)

(* C5.  For a table configured by configure_lookup and then laid out, on a *)
(* row where the selector is 1 and the index equals k in [0, degree), the  *)
(* lookup relations of all physical columns hold together if and only if   *)
(* the input witness is an integer v of the table's range lying in chunk k *)
(* and the output witness is nonlinearity(v).                              *)
C5_SelectedChunkChecked ==
    \A nl \in LaidOutTables :
       LET t == static_lookups.tables[nl]
       IN  \A x \in 0..(MaxBlocks - 1), y \in 0..(MaxInnerCols - 1),
              k \in 0..(t.selector_constructor.degree - 1),
              input \in Witnesses, output \in Witnesses :
              (\A q \in LookupsOf(t) :
                  (cs.lookups[q].x = x /\ cs.lookups[q].y = y) =>
                     LookupSatisfied(cs.lookups[q], t, 1, FFrom(k),
                                     input, output))
              <=>
              (\E v \in t.range[1]..t.range[2] :
                  /\ (v - t.range[1]) \div t.col_size = k
                  /\ input = i64_to_felt(v)
                  /\ output = LookupOp_f(nl, i64_to_felt(v)))


----------------------------------------------------------------------------
\* the elements of a sequence
Elems(seq) == {seq[k] : k \in DOMAIN seq}

(* C11.  After any sequence of successful configure_lookup calls every     *)
(* table of the registry has the same table_inputs, those allocated for    *)
(* the first configured table: a configure_lookup call that adds a table   *)
(* to a registry already holding one allocates no input column, gives the  *)
(* new table the input columns of the tables already there, and allocates  *)
(* one fresh output column per input column.                               *)
C11_InputsShared ==
    [][ (/\ last'.call = "configure_lookup"
         /\ last'.branch = "configured")
        => LET old == static_lookups.tables
               new == static_lookups'.tables
               t   == new[last'.nl]
           IN  /\ \A a \in DOMAIN old :
                     /\ new[a] = old[a]
                     /\ t.table_inputs = old[a].table_inputs
               /\ DOMAIN old # {} =>
                     cs'.num_table_columns
                        = cs.num_table_columns + Len(t.table_inputs)
               /\ Len(t.table_outputs) = Len(t.table_inputs)
               /\ Cardinality(Elems(t.table_outputs)) = Len(t.table_outputs)
               /\ \A k \in DOMAIN t.table_outputs :
                     /\ t.table_outputs[k] > cs.num_table_columns
                     /\ t.table_outputs[k] <= cs'.num_table_columns
                     /\ t.table_outputs[k] \notin Elems(t.table_inputs)
               /\ \A a, b \in DOMAIN new :
                     new[a].table_inputs = new[b].table_inputs ]_vars

\* a second table was configured on the three input columns of the first
C11_Witness ==
    /\ last.call = "configure_lookup"
    /\ last.branch = "configured"
    /\ DOMAIN static_lookups.tables = LookupOps
    /\ Len(static_lookups.tables[last.nl].table_inputs) = 3
    /\ cs.num_table_columns = 9


----------------------------------------------------------------------------
(* The single-column scenario: a lookup range of (-8, 8) at logrows 6.     *)

Scenario == [range |-> <<-8, 8>>, logrows |-> 6, blinding_factors |-> 5]

\* the ranges configured next to the scenario's
ScenarioRanges == {Scenario.range, <<-1, 1>>}

ConfigureScenario ==
    /\ ~panicked
    /\ \E ka \in BOOLEAN, lookup_range \in ScenarioRanges, nl \in LookupOps :
         LET input == IF ka THEN Advice(MaxBlocks, MaxInnerCols) ELSE Dummy
             r == configure_lookup(static_lookups, cs, input,
                                   Advice(MaxBlocks, MaxInnerCols),
                                   Advice(MaxBlocks, MaxInnerCols),
                                   lookup_range, Scenario.logrows, nl)
         IN  /\ static_lookups' = r.static_lookups
             /\ cs' = r.cs
             /\ last' = [call |-> "configure_lookup", nl |-> nl,
                         all_advice |-> ka,
                         logrows |-> Scenario.logrows,
                         ret |-> r.ret, branch |-> r.branch]
    /\ UNCHANGED <<custom_gates, gates, dynamic_lookups, shuffles, check_mode, range_checks,
                   fixed, used_columns, panicked>>

SpecScenario ==
    Init /\ [][ConfigureScenario \/ TableLayout \/ LayoutTables]_vars

(* C12.  For range = (-8, 8), logrows = 6 and 5 blinding factors           *)
(* (col_size = 64 - 8 = 56): Table::configure with no shared input columns *)
(* allocates exactly 1 input and 1 output column (degree 1), and layout    *)
(* assigns the 17 values v of [-8, 8] to rows 0..16 of that single column  *)
(* in ascending order, each as (v * 1, nonlinearity(v) * 1).               *)
C12_SingleColumnScenario ==
    [][ /\ (/\ last'.call = "configure_lookup"
            /\ last'.branch = "configured"
            /\ DOMAIN static_lookups.tables = {}
            /\ cs.blinding_factors = Scenario.blinding_factors
            /\ static_lookups'.tables[last'.nl].range = Scenario.range)
           => LET t == static_lookups'.tables[last'.nl]
              IN  /\ t.col_size = 56
                  /\ Len(t.table_inputs) = 1
                  /\ Len(t.table_outputs) = 1
                  /\ t.selector_constructor.degree = 1
                  /\ cs'.num_table_columns = cs.num_table_columns + 2
        /\ (/\ last'.call = "Table::layout"
            /\ last'.ret = "Ok"
            /\ ~last'.preassigned_input
            /\ cs.blinding_factors = Scenario.blinding_factors
            /\ static_lookups.tables[last'.nl].range = Scenario.range)
           => LET t == static_lookups.tables[last'.nl]
              IN  /\ Len(last'.writes) = 2 * 17
                  /\ \A k \in 0..16 :
                        LET v == i64_to_felt(k - 8)
                        IN  /\ last'.writes[2 * k + 1] =
                                  <<t.table_inputs[1], k, FMul(v, 1)>>
                            /\ last'.writes[2 * k + 2] =
                                  <<t.table_outputs[1], k,
                                    FMul(LookupOp_f(last'.nl, v), 1)>>
                            /\ get_selector_val_at_idx(
                                  t.selector_constructor.degree, 0) = 1 ]_vars

\* the table of the scenario, configured first, was laid out in 17 rows
C12_Witness ==
    /\ last.call = "Table::layout"
    /\ last.ret = "Ok"
    /\ ~last.preassigned_input
    /\ cs.blinding_factors = Scenario.blinding_factors
    /\ static_lookups.tables[last.nl].range = Scenario.range
    /\ static_lookups.tables[last.nl].table_inputs = <<1>>
    /\ static_lookups.tables[last.nl].table_outputs = <<2>>
    /\ <<2, 16>> \in DOMAIN fixed
    /\ Len(last.writes) = 34


----------------------------------------------------------------------------
(* C13.  configure_lookup returns an error whenever the index, the input   *)
(* or the output column is not of the advice kind, and then neither the    *)
(* static-lookup registry nor the constraint system is changed: no table   *)
(* column, selector or lookup relation is allocated.                       *)
C13_NonAdviceRejected ==
    [][ (/\ last'.call = "configure_lookup"
         /\ ~last'.all_advice)
        => /\ last'.ret = "Err"
           /\ static_lookups' = static_lookups
           /\ cs'.num_table_columns = cs.num_table_columns
           /\ cs'.num_selectors = cs.num_selectors
           /\ cs'.lookups = cs.lookups ]_vars

\* a call with a non-advice column was rejected on an empty registry
C13_Witness ==
    /\ last.call = "configure_lookup"
    /\ ~last.all_advice
    /\ last.ret = "Err"
    /\ last.branch = "wrong input type"
    /\ DOMAIN static_lookups.tables = {}
    /\ cs.num_table_columns = 0


(* C14.  configure_range_check returns an error, leaving the range-check   *)
(* registry unchanged, whenever a column passed to it, the input column or *)
(* the index column, is not of the advice kind.                            *)
C14_RangeCheckNonAdviceRejected ==
    [][ (/\ last'.call = "configure_range_check"
         /\ (~last'.input_advice \/ ~last'.index_advice))
        => /\ last'.ret = "Err"
           /\ range_checks' = range_checks ]_vars

\* a non-advice index column was accepted and a range check registered
C14_IndexAccepted ==
    /\ last.call = "configure_range_check"
    /\ last.input_advice
    /\ ~last.index_advice
    /\ last.ret = "Ok"
    /\ last.branch = "configured"
    /\ last.range \in DOMAIN range_checks.ranges
    /\ ~is_advice(range_checks.index)


----------------------------------------------------------------------------
(* configure_dynamic_lookup and configure_shuffles on their own.  The two  *)
(* registries share nothing but the selector counter of the constraint     *)
(* system: a run of the model populates one of the two.                    *)

\* the columns of a call: one of two valid columns in every position, or
\* that with one position replaced by a column that is not valid
Columns(n, valid, invalid) ==
    {[k \in 1..n |-> v] : v \in valid}
      \cup {[k \in 1..n |-> IF k = p THEN b ELSE v] :
               v \in valid, p \in 1..n, b \in invalid}

LookupColumns(n) ==
    Columns(n, {AdviceCol(10, MaxBlocks, MaxInnerCols),
                AdviceCol(20, MaxBlocks, MaxInnerCols)}, {Dummy})

TableColumns(n) ==
    Columns(n, {AdviceCol(30, 1, 1), AdviceCol(40, 1, 1)},
            {Dummy, AdviceCol(50, MaxBlocks, 1),
             AdviceCol(60, 1, MaxInnerCols + 1)})

ConfigureDynamicLookup ==
    /\ ~panicked
    /\ shuffles = Shuffles_default
    /\ Len(dynamic_lookups.table_selectors) < MaxCalls
    /\ \E lookups \in LookupColumns(3), tables \in TableColumns(3) :
         LET r == configure_dynamic_lookup(dynamic_lookups, cs, lookups, tables)
         IN  /\ dynamic_lookups' = r.dynamic_lookups
             /\ cs' = r.cs
             /\ panicked' = (r.ret = "panic")
             /\ last' = [call |-> "configure_dynamic_lookup",
                         lookups |-> lookups, tables |-> tables,
                         ret |-> r.ret, branch |-> r.branch]
    /\ UNCHANGED <<custom_gates, gates, shuffles, check_mode, static_lookups, range_checks,
                   fixed, used_columns>>

ConfigureShuffles ==
    /\ ~panicked
    /\ dynamic_lookups = DynamicLookups_default
    /\ Len(shuffles.reference_selectors) < MaxCalls
    /\ \E inputs \in LookupColumns(2), references \in TableColumns(2) :
         LET r == configure_shuffles(shuffles, cs, inputs, references)
         IN  /\ shuffles' = r.shuffles
             /\ cs' = r.cs
             /\ panicked' = (r.ret = "panic")
             /\ last' = [call |-> "configure_shuffles",
                         inputs |-> inputs, references |-> references,
                         ret |-> r.ret, branch |-> r.branch]
    /\ UNCHANGED <<custom_gates, gates, dynamic_lookups, check_mode, static_lookups, range_checks,
                   fixed, used_columns>>

SpecDynamic == Init /\ [][ConfigureDynamicLookup \/ ConfigureShuffles]_vars


\* a lookup (input) column that is not advice, or a table (reference) column
\* that is not advice or spans several blocks or inner columns
InvalidColumns(ins, tabs) ==
    \/ \E k \in DOMAIN ins : ins[k].kind # "Advice"
    \/ \E k \in DOMAIN tabs :
          \/ tabs[k].kind # "Advice"
          \/ tabs[k].num_blocks > 1
          \/ tabs[k].num_inner_cols > 1

(* C15.  configure_dynamic_lookup returns an error if any of the 3 lookup  *)
(* columns is not advice, or if any of the 3 table columns is not advice   *)
(* or spans more than one block or more than one inner column; on such an  *)
(* error no selector is allocated, no lookup-any relation is registered    *)
(* and the DynamicLookups registry is unchanged.  configure_shuffles       *)
(* applies the same validation to its 2 inputs and 2 references.           *)
C15_DynamicValidation ==
    [][ /\ (/\ last'.call = "configure_dynamic_lookup"
            /\ InvalidColumns(last'.lookups, last'.tables))
           => /\ last'.ret = "Err"
              /\ cs'.num_selectors = cs.num_selectors
              /\ cs'.lookups = cs.lookups
              /\ dynamic_lookups' = dynamic_lookups
        /\ (/\ last'.call = "configure_shuffles"
            /\ InvalidColumns(last'.inputs, last'.references))
           => /\ last'.ret = "Err"
              /\ cs'.num_selectors = cs.num_selectors
              /\ cs'.lookups = cs.lookups
              /\ shuffles' = shuffles ]_vars

\* a table column of two inner columns was rejected after a successful call
C15_Witness ==
    /\ last.call = "configure_dynamic_lookup"
    /\ \A k \in 1..3 : last.lookups[k].kind = "Advice"
    /\ \E k \in 1..3 : /\ last.tables[k].kind = "Advice"
                       /\ last.tables[k].num_inner_cols > 1
    /\ last.ret = "Err"
    /\ Len(dynamic_lookups.table_selectors) = 1
    /\ cs.num_selectors = 1 + MaxBlocks * MaxInnerCols

(* C16.  From BaseConfig::configure on, after any sequence of successful   *)
(* configure_dynamic_lookup calls the registry's tables and inputs are the *)
(* columns passed to the first successful call; later calls, whatever      *)
(* columns they pass, never change them.  The same holds for the           *)
(* references and inputs of Shuffles under configure_shuffles.             *)
C16_FirstCallFixesColumns ==
    [][ /\ (last'.call = "configure_dynamic_lookup" /\ last'.ret = "Ok")
           => IF Len(dynamic_lookups.table_selectors) = 0
              THEN /\ dynamic_lookups'.tables = last'.tables
                   /\ dynamic_lookups'.inputs = last'.lookups
              ELSE /\ dynamic_lookups'.tables = dynamic_lookups.tables
                   /\ dynamic_lookups'.inputs = dynamic_lookups.inputs
        /\ (last'.call = "configure_shuffles" /\ last'.ret = "Ok")
           => IF Len(shuffles.reference_selectors) = 0
              THEN /\ shuffles'.references = last'.references
                   /\ shuffles'.inputs = last'.inputs
              ELSE /\ shuffles'.references = shuffles.references
                   /\ shuffles'.inputs = shuffles.inputs
        /\ last'.ret # "Ok"
           => /\ dynamic_lookups' = dynamic_lookups
              /\ shuffles' = shuffles ]_vars

\* a second successful call passed other columns than the registry holds
C16_Witness ==
    /\ last.call = "configure_dynamic_lookup"
    /\ last.ret = "Ok"
    /\ Len(dynamic_lookups.table_selectors) = 2
    /\ last.tables # dynamic_lookups.tables
    /\ last.lookups # dynamic_lookups.inputs
    /\ dynamic_lookups.tables[1].col = 30
    /\ last.tables[1].col = 40

(* C17.  Re-invoking configure_dynamic_lookup (configure_shuffles) with    *)
(* the lookup and table columns of an earlier successful call is a no-op:  *)
(* it allocates no selector, registers no lookup-any relation, and leaves  *)
(* lookup_selectors and table_selectors (input_selectors and               *)
(* reference_selectors) unchanged.                                         *)
C17_ReinvocationIsNoOp ==
    [][ /\ (/\ last'.call = "configure_dynamic_lookup"
            /\ last'.ret = "Ok"
            /\ Len(dynamic_lookups.table_selectors) > 0
            /\ last'.lookups = dynamic_lookups.inputs
            /\ last'.tables = dynamic_lookups.tables)
           => /\ cs'.num_selectors = cs.num_selectors
              /\ cs'.lookups = cs.lookups
              /\ dynamic_lookups'.lookup_selectors
                    = dynamic_lookups.lookup_selectors
              /\ dynamic_lookups'.table_selectors
                    = dynamic_lookups.table_selectors
        /\ (/\ last'.call = "configure_shuffles"
            /\ last'.ret = "Ok"
            /\ Len(shuffles.reference_selectors) > 0
            /\ last'.inputs = shuffles.inputs
            /\ last'.references = shuffles.references)
           => /\ cs'.num_selectors = cs.num_selectors
              /\ cs'.lookups = cs.lookups
              /\ shuffles'.input_selectors = shuffles.input_selectors
              /\ shuffles'.reference_selectors
                    = shuffles.reference_selectors ]_vars

\* the same columns were configured twice: two table selectors, twice the
\* selectors and relations of one call
C17_Duplicated ==
    /\ last.call = "configure_dynamic_lookup"
    /\ last.ret = "Ok"
    /\ last.lookups = dynamic_lookups.inputs
    /\ last.tables = dynamic_lookups.tables
    /\ Len(dynamic_lookups.table_selectors) = 2
    /\ cs.num_selectors = 2 * (1 + MaxBlocks * MaxInnerCols)
    /\ Len(cs.lookups) = 2 * MaxBlocks * MaxInnerCols


----------------------------------------------------------------------------
(* C18.  For every Table and RangeCheck, col_size equals                   *)
(* 2^logrows - (blinding_factors + 3) as computed at configure time, and   *)
(* no later operation (configure_lookup, configure_range_check, layout,    *)
(* layout_tables, layout_range_checks) ever changes it.                    *)
C18_ColSizeFixed ==
    [][ /\ (last'.call = "configure_lookup" /\ last'.branch = "configured")
           => static_lookups'.tables[last'.nl].col_size
                 = 2 ^ last'.logrows - (cs.blinding_factors + 3)
        /\ (/\ last'.call = "configure_range_check"
            /\ last'.branch = "configured")
           => range_checks'.ranges[last'.range].col_size
                 = 2 ^ last'.logrows - (cs.blinding_factors + 3)
        /\ cs'.blinding_factors = cs.blinding_factors
        /\ \A nl \in DOMAIN static_lookups.tables :
              /\ nl \in DOMAIN static_lookups'.tables
              /\ static_lookups'.tables[nl].col_size
                    = static_lookups.tables[nl].col_size
        /\ \A range \in DOMAIN range_checks.ranges :
              /\ range \in DOMAIN range_checks'.ranges
              /\ range_checks'.ranges[range].col_size
                    = range_checks.ranges[range].col_size ]_vars

\* two tables configured at different logrows and laid out keep 8 and 24
C18_Witness ==
    /\ last.call = "layout_tables"
    /\ cs.blinding_factors = 5
    /\ DOMAIN static_lookups.tables = LookupOps
    /\ static_lookups.tables["Abs"].col_size = 8
    /\ static_lookups.tables["ReLU"].col_size = 24
    /\ static_lookups.tables["Abs"].is_assigned


----------------------------------------------------------------------------
\* the positions of the writes of the last call that went to one of cols
WritesTo(w, cols) == {q \in DOMAIN w : w[q][1] \in cols}

(* C19.  layout_tables lays out every static table that is not yet         *)
(* assigned, in registry (key) order, and skips assigned ones; it passes   *)
(* preassigned_input = false to the first table of the registry and        *)
(* preassigned_input = true to every other table; when it returns success  *)
(* every table of the registry has is_assigned = true.                     *)
C19_LayoutTablesOrder ==
    [][ last'.call = "layout_tables" =>
        LET old   == static_lookups.tables
            new   == static_lookups'.tables
            w     == last'.writes
            first == CHOOSE k \in DOMAIN old :
                        \A j \in DOMAIN old : LookupOpOrd(k) <= LookupOpOrd(j)
            size(nl) == (old[nl].range[2] - old[nl].range[1]) + 1
        IN  /\ DOMAIN new = DOMAIN old
            \* assigned tables are skipped
            /\ \A nl \in DOMAIN old :
                  old[nl].is_assigned =>
                     /\ new[nl] = old[nl]
                     /\ WritesTo(w, Elems(old[nl].table_outputs)) = {}
            \* on success every unassigned table was laid out
            /\ last'.ret = "Ok" =>
                  \A nl \in DOMAIN old :
                     /\ new[nl].is_assigned
                     /\ ~old[nl].is_assigned =>
                          Cardinality(WritesTo(w, Elems(old[nl].table_outputs)))
                             = size(nl)
            \* the inputs are written for the first table only
            /\ \A nl \in DOMAIN old :
                  LET ins == WritesTo(w, Elems(old[nl].table_inputs))
                  IN  /\ ins # {} => ~old[first].is_assigned
                      /\ Cardinality(ins) <= size(first)
                      /\ (last'.ret = "Ok" /\ ~old[first].is_assigned)
                            => Cardinality(ins) = size(first)
                      /\ \A q \in ins :
                            /\ q < Len(w)
                            /\ w[q + 1][1] \in Elems(old[first].table_outputs)
            \* key order
            /\ \A a, b \in DOMAIN old :
                  LookupOpOrd(a) < LookupOpOrd(b) =>
                     \A p \in WritesTo(w, Elems(old[a].table_outputs)),
                        q \in WritesTo(w, Elems(old[b].table_outputs)) : p < q
      ]_vars

\* layout_tables laid out two tables: inputs and outputs of the first, then
\* the outputs of the second
C19_Witness ==
    /\ last.call = "layout_tables"
    /\ last.ret = "Ok"
    /\ DOMAIN static_lookups.tables = LookupOps
    /\ \A nl \in LookupOps :
          /\ static_lookups.tables[nl].is_assigned
          /\ static_lookups.tables[nl].range = <<-1, 1>>
    /\ Len(last.writes) = 9


----------------------------------------------------------------------------
(* C20, as stated.  Invoking configure_range_check a second time with a    *)
(* range already in the range-check registry returns success and changes   *)
(* nothing: no table column, selector or lookup relation is allocated, and *)
(* the registry's ranges and selectors are unchanged.                      *)
C20_SecondCallSucceeds ==
    [][ (/\ last'.call = "configure_range_check"
         /\ last'.range \in DOMAIN range_checks.ranges)
        => /\ last'.ret = "Ok"
           /\ cs' = cs
           /\ range_checks' = range_checks ]_vars

(* C20, amended.  Invoking configure_range_check with an advice input      *)
(* column and a range already in the range-check registry returns success  *)
(* and changes nothing: no table column, selector or lookup relation is    *)
(* allocated, the registry's ranges and selectors are unchanged, and the   *)
(* registry holds one RangeCheck per range; with a non-advice input column *)
(* the call returns an error and changes nothing either.                   *)
C20_SecondCallIsNoOp ==
    [][ (/\ last'.call = "configure_range_check"
         /\ last'.range \in DOMAIN range_checks.ranges)
        => /\ last'.input_advice => last'.ret = "Ok"
           /\ ~last'.input_advice => last'.ret = "Err"
           /\ cs'.num_table_columns = cs.num_table_columns
           /\ cs'.num_selectors = cs.num_selectors
           /\ cs'.lookups = cs.lookups
           /\ range_checks'.ranges = range_checks.ranges
           /\ range_checks'.selectors = range_checks.selectors
           /\ range_checks' = range_checks
           /\ Cardinality(DOMAIN range_checks'.ranges)
                 = Cardinality(DOMAIN range_checks.ranges) ]_vars

\* a range check of three columns was configured again: success, and the
\* columns, selectors and relations of the first call only
C20_Witness ==
    /\ last.call = "configure_range_check"
    /\ last.input_advice
    /\ last.branch = "already present"
    /\ last.ret = "Ok"
    /\ last.range \in DOMAIN range_checks.ranges
    /\ Len(range_checks.ranges[last.range].inputs) = 3
    /\ cs.num_table_columns = 3
    /\ Len(cs.lookups) = 3 * MaxBlocks * MaxInnerCols


----------------------------------------------------------------------------
(* BaseConfig::configure on its own, on a constraint system that holds any *)
(* number of selectors already: each call returns a new BaseConfig.        *)

InitConfigure ==
    /\ cs \in {[blinding_factors |-> 5, num_table_columns |-> 0,
                num_selectors |-> n, lookups |-> <<>>] :
                  n \in 0..MaxPriorSelectors}
    /\ check_mode = "SAFE"
    /\ static_lookups = [selectors |-> <<>>, tables |-> <<>>,
                         index |-> Empty, output |-> Empty, input |-> Empty]
    /\ range_checks = [selectors |-> <<>>, ranges |-> <<>>,
                       index |-> Empty, input |-> Empty]
    /\ dynamic_lookups = DynamicLookups_default
    /\ shuffles = Shuffles_default
    /\ custom_gates = CustomGates_default
    /\ gates = {}
    /\ fixed = <<>>
    /\ used_columns = {}
    /\ last = [call |-> "ConstraintSystem::default"]
    /\ panicked = FALSE

\* the two inputs and the output have one shape
Configure ==
    /\ cs.num_selectors <= MaxPriorSelectors
    /\ \E B \in 1..MaxBlocks, C \in 1..MaxGateInnerCols, mode \in CheckModes :
         LET output == AdviceCol(3, B, C)
             inputs == <<AdviceCol(1, B, C), AdviceCol(2, B, C)>>
             r == BaseConfig_configure(cs, gates, inputs, output, mode)
         IN  /\ custom_gates' = r.custom_gates
             /\ static_lookups' = r.static_lookups
             /\ dynamic_lookups' = r.dynamic_lookups
             /\ shuffles' = r.shuffles
             /\ range_checks' = r.range_checks
             /\ check_mode' = r.check_mode
             /\ cs' = r.cs
             /\ gates' = r.gates
             /\ last' = [call |-> "configure", inputs |-> inputs,
                         output |-> output, check_mode |-> mode]
    /\ UNCHANGED <<fixed, used_columns, panicked>>

SpecConfigure == InitConfigure /\ [][Configure]_vars

\* C21: BaseConfig::configure on an output of B blocks and C inner columns
\* returns a selectors map whose keys are exactly (op, block, inner column)
\* for Add, Sub, Mult, IsBoolean and (op, block, 0) for Dot, DotInit, Sum,
\* SumInit, CumProd, CumProdInit, 4 B C + 6 B entries in all, holding
\* pairwise distinct selectors none of which existed before; it creates
\* exactly one gate per entry, gated by that entry's selector; and every
\* other registry of the returned BaseConfig is empty.
C21_OneSelectorAndGatePerKey ==
    [][Configure =>
        LET B == last'.output.num_blocks
            C == last'.output.num_inner_cols
            sel == custom_gates'.selectors
            keys == {<<op, i, j>> :
                        op \in {"Add", "Sub", "Mult", "IsBoolean"},
                        i \in 0..(B - 1), j \in 0..(C - 1)}
                    \cup {<<op, i, 0>> :
                        op \in {"Dot", "DotInit", "Sum", "SumInit",
                                "CumProd", "CumProdInit"},
                        i \in 0..(B - 1)}
            created == gates' \ gates
        IN  /\ DOMAIN sel = keys
            /\ Cardinality(DOMAIN sel) = 4 * B * C + 6 * B
            /\ \A k1, k2 \in keys : k1 # k2 => sel[k1] # sel[k2]
            /\ \A k \in keys : sel[k] > cs.num_selectors
            /\ gates \subseteq gates'
            /\ Cardinality(created) = Cardinality(keys)
            /\ \A k \in keys :
                 \E g \in created :
                    /\ <<g.base_op, g.block_idx, g.inner_col_idx>> = k
                    /\ g.selector = sel[k]
            /\ static_lookups'.selectors = <<>>
            /\ static_lookups'.tables = <<>>
            /\ range_checks'.selectors = <<>>
            /\ range_checks'.ranges = <<>>
            /\ dynamic_lookups' = DynamicLookups_default
            /\ shuffles' = Shuffles_default]_vars

\* configure has returned the gates of an output of more than one block
C21_Witness ==
    /\ last.call = "configure"
    /\ last.output.num_blocks > 1
    /\ last.output.num_inner_cols > 1
    /\ Cardinality(DOMAIN custom_gates.selectors) = Cardinality(gates)
    /\ gates # {}

----------------------------------------------------------------------------
\* C22 as stated: for every degree d >= 1 and i in [0,d),
\* get_selector_val_at_idx(i) equals the product over j in [0,d), j # i, of
\* (i - j), where the j = 0 factor is the value i.
C22_ProductOfIMinusJ ==
    last.call = "get_selector_val_at_idx" =>
        LET RECURSIVE prod(_)
            prod(S) == IF S = {} THEN 1
                       ELSE LET j == CHOOSE j \in S : TRUE
                            IN  (IF j = 0 THEN last.i ELSE last.i - j)
                                * prod(S \ {j})
        IN  last.ret = i64_to_felt(prod((0..(last.degree - 1)) \ {last.i}))

\* C22: for every degree d >= 1 and i in [0,d), get_selector_val_at_idx(i)
\* is the field element of the integer product over j in [0,d), j # i, of
\* (j - i), where the j = 0 factor is the value i: every factor with j > 0 has
\* the sign opposite to (i - j).
C22_ProductOfJMinusI ==
    last.call = "get_selector_val_at_idx" =>
        LET RECURSIVE prod(_)
            prod(S) == IF S = {} THEN 1
                       ELSE LET j == CHOOSE j \in S : TRUE
                            IN  (IF j = 0 THEN last.i ELSE j - last.i)
                                * prod(S \ {j})
        IN  last.ret = i64_to_felt(prod((0..(last.degree - 1)) \ {last.i}))

\* get_selector_val_at_idx(1) of degree 3 is 1 * (2 - 1) = 1, not
\* 1 * (1 - 2)
C22_Witness ==
    /\ last.call = "get_selector_val_at_idx"
    /\ last.degree = 3
    /\ last.i = 1
    /\ last.ret = 1

----------------------------------------------------------------------------
\* the lookup relations configure_range_check registered for range check rc
RangeLookupsOf(rc) ==
    {q \in DOMAIN cs.lookups :
        /\ "output_col" \notin DOMAIN cs.lookups[q]
        /\ "input_col" \in DOMAIN cs.lookups[q]
        /\ \E k \in DOMAIN rc.inputs : rc.inputs[k] = cs.lookups[q].input_col}

\* the rows of the table column a range-check relation looks up in
RangeRows(lk, rc) ==
    {CellValue(lk.input_col, r) :
        r \in 0..(rc.col_size + RESERVED_BLINDING_ROWS_PAD - 2)}

\* C23: after RangeCheck::layout succeeds, for every integer v of [lo, hi]
\* the cell at column (v - lo) div col_size, row (v - lo) mod col_size holds
\* v * m with m = get_selector_val_at_idx of that column, and no other cell
\* was written; and on a row with selector 1 and index k in [0, degree) the
\* lookup relations of all columns hold together if and only if the input
\* witness is an integer of [lo, hi] lying in chunk k.
C23_RangeCheckMembership ==
    (last.call = "RangeCheck::layout" /\ last.ret = "Ok") =>
      LET rc == range_checks.ranges[last.range]
          lo == rc.range[1]
          hi == rc.range[2]
          degree == rc.selector_constructor.degree
          column(v) == (v - lo) \div rc.col_size
          cell(v) == <<rc.inputs[column(v) + 1], (v - lo) % rc.col_size>>
      IN  /\ \A v \in lo..hi :
                /\ column(v) < Len(rc.inputs)
                /\ cell(v) \in DOMAIN fixed
                /\ fixed[cell(v)] =
                      FMul(i64_to_felt(v),
                           get_selector_val_at_idx(degree, column(v)))
          /\ {<<last.writes[n][1], last.writes[n][2]>> :
                 n \in DOMAIN last.writes} = {cell(v) : v \in lo..hi}
          /\ Len(last.writes) = (hi - lo) + 1
          /\ RangeLookupsOf(rc) # {}
          /\ \A x \in 0..(MaxBlocks - 1), y \in 0..(MaxInnerCols - 1),
                k \in 0..(degree - 1), input \in Witnesses :
                (\A q \in RangeLookupsOf(rc) :
                    (cs.lookups[q].x = x /\ cs.lookups[q].y = y) =>
                       RangeLookupExpr(cs.lookups[q], 1, FFrom(k), input)
                          \in RangeRows(cs.lookups[q], rc))
                <=>
                (\E v \in lo..hi :
                    /\ column(v) = k
                    /\ input = i64_to_felt(v))

\* a range check of three columns was laid out
C23_Witness ==
    /\ last.call = "RangeCheck::layout"
    /\ last.ret = "Ok"
    /\ range_checks.ranges[last.range].selector_constructor.degree = 3
    /\ Len(last.writes) = MaxHi + 3
    /\ Cardinality(RangeLookupsOf(range_checks.ranges[last.range]))
          = 3 * MaxBlocks * MaxInnerCols

----------------------------------------------------------------------------
\* the writes of a layout call, in order, follow the linear order of the
\* values over the given columns: the k-th of them (from 0) is at column
\* k div col_size, row k mod col_size
InLinearOrder(w, columns, col_size) ==
    \A k \in DOMAIN w :
       /\ ((k - 1) \div col_size) + 1 \in DOMAIN columns
       /\ w[k][1] = columns[((k - 1) \div col_size) + 1]
       /\ w[k][2] = (k - 1) % col_size

\* C24: Table::layout and RangeCheck::layout assign the cells one after
\* the other in strictly ascending linear order of (v - lo): chunk by chunk
\* in increasing chunk index and inside a chunk in increasing row (per value
\* the input cell, when it is written, then the output cell); every
\* (column, row) cell is written at most once and every written row index
\* is smaller than col_size.
C24_SequentialAscending ==
    /\ last.call = "Table::layout" =>
         LET t    == static_lookups.tables[last.nl]
             w    == last.writes
             ins  == SelectSeq(w, LAMBDA c : c[1] \in Elems(t.table_inputs))
             outs == SelectSeq(w, LAMBDA c : c[1] \in Elems(t.table_outputs))
         IN  /\ Len(ins) + Len(outs) = Len(w)
             /\ InLinearOrder(outs, t.table_outputs, t.col_size)
             /\ InLinearOrder(ins, t.table_inputs, t.col_size)
             /\ last.preassigned_input => ins = <<>>
             /\ ~last.preassigned_input =>
                   \A n \in DOMAIN w :
                      (w[n][1] \in Elems(t.table_inputs)) <=> (n % 2 = 1)
             /\ \A n, k \in DOMAIN w :
                   n # k => <<w[n][1], w[n][2]>> # <<w[k][1], w[k][2]>>
             /\ \A n \in DOMAIN w : w[n][2] < t.col_size
    /\ last.call = "RangeCheck::layout" =>
         LET rc == range_checks.ranges[last.range]
             w  == last.writes
         IN  /\ InLinearOrder(w, rc.inputs, rc.col_size)
             /\ \A n, k \in DOMAIN w :
                   n # k => <<w[n][1], w[n][2]>> # <<w[k][1], w[k][2]>>
             /\ \A n \in DOMAIN w : w[n][2] < rc.col_size

\* a table of three chunks was laid out on preassigned inputs: only its
\* output cells were written, over three columns
C24_Witness ==
    /\ last.call = "Table::layout"
    /\ last.preassigned_input
    /\ last.ret = "Ok"
    /\ Len(last.writes) = MaxHi + 3
    /\ Cardinality({last.writes[n][1] : n \in DOMAIN last.writes}) = 3

----------------------------------------------------------------------------
\* table t holds the pair of v on the row of v: v * m in its input column
\* and nonlinearity(v) * m in its output column
HoldsPair(t, v) ==
    LET column == (v - t.range[1]) \div t.col_size
        row    == (v - t.range[1]) % t.col_size
        m      == get_selector_val_at_idx(t.selector_constructor.degree,
                                          column)
    IN  /\ column < Len(t.table_inputs)
        /\ column < Len(t.table_outputs)
        /\ CellValue(t.table_inputs[column + 1], row)
              = FMul(i64_to_felt(v), m)
        /\ CellValue(t.table_outputs[column + 1], row)
              = FMul(LookupOp_f(t.nonlinearity, i64_to_felt(v)), m)

\* C25: after layout_tables succeeds on a registry of two or more tables,
\* for every table T of the registry and every integer v of T's range the
\* row of the shared input column that holds v * m holds
\* nonlinearity_T(v) * m in T's output column, whatever ranges the tables
\* were configured with.
C25_SharedInputsHoldEveryRange ==
    (/\ last.call = "layout_tables"
     /\ last.ret = "Ok"
     /\ Cardinality(DOMAIN static_lookups.tables) >= 2) =>
        \A nl \in DOMAIN static_lookups.tables :
           LET t == static_lookups.tables[nl]
           IN  \A v \in t.range[1]..t.range[2] : HoldsPair(t, v)

\* layout_tables succeeded on two tables of different ranges and the shared
\* input column holds the values of the first table's range only
C25_InputsOfAnotherRange ==
    /\ last.call = "layout_tables"
    /\ last.ret = "Ok"
    /\ Cardinality(DOMAIN static_lookups.tables) = 2
    /\ static_lookups.tables["Abs"].range # static_lookups.tables["ReLU"].range
    /\ \A v \in static_lookups.tables["Abs"].range[1]
                ..static_lookups.tables["Abs"].range[2] :
          HoldsPair(static_lookups.tables["Abs"], v)
    /\ \E v \in static_lookups.tables["ReLU"].range[1]
                ..static_lookups.tables["ReLU"].range[2] :
          ~HoldsPair(static_lookups.tables["ReLU"], v)

----------------------------------------------------------------------------
\* C26: Table::layout and RangeCheck::layout set is_assigned before the
\* first cell is written.  A call that is not rejected and whose evaluation
\* does not fail leaves is_assigned = true whatever it returns; when a cell
\* assignment fails, it returns that error with is_assigned = true, every
\* later layout call on the table returns TableAlreadyAssigned and
\* layout_tables (layout_range_checks) passes over the table without
\* writing to it; when the nonlinearity evaluation fails (Table only) it
\* returns the error with is_assigned still false and no cell written.  A
\* table or range check that is assigned stays assigned.
C26_AssignedBeforeWrites ==
    [][/\ \A nl \in DOMAIN static_lookups.tables :
             static_lookups.tables[nl].is_assigned =>
                /\ nl \in DOMAIN static_lookups'.tables
                /\ static_lookups'.tables[nl].is_assigned
       /\ \A r \in DOMAIN range_checks.ranges :
             range_checks.ranges[r].is_assigned =>
                /\ r \in DOMAIN range_checks'.ranges
                /\ range_checks'.ranges[r].is_assigned
       /\ last'.call = "Table::layout" =>
            LET before == static_lookups.tables[last'.nl]
                after  == static_lookups'.tables[last'.nl]
                st     == [fixed |-> fixed', used_columns |-> used_columns',
                           writes |-> <<>>, ret |-> "Ok", failing |-> {}]
                again  == layout_tables(static_lookups'.tables, st)
            IN  /\ last'.ret = "TableAlreadyAssigned" <=> before.is_assigned
                /\ last'.ret = "TensorError" =>
                      /\ ~after.is_assigned
                      /\ last'.writes = <<>>
                      /\ fixed' = fixed
                /\ last'.ret \in {"Ok", "Synthesis", "panic"} =>
                      after.is_assigned
                /\ last'.writes # <<>> => after.is_assigned
                /\ last'.ret = "Synthesis" =>
                      /\ \A b \in BOOLEAN :
                            LET r == Table_layout(after, st, b)
                            IN  /\ r.st.ret = "TableAlreadyAssigned"
                                /\ r.st.writes = <<>>
                                /\ r.table = after
                      /\ again.tables[last'.nl] = after
                      /\ WritesTo(again.st.writes,
                                  Elems(after.table_outputs)) = {}
       /\ last'.call = "RangeCheck::layout" =>
            LET before == range_checks.ranges[last'.range]
                after  == range_checks'.ranges[last'.range]
            IN  /\ last'.ret = "TableAlreadyAssigned" <=> before.is_assigned
                /\ after.is_assigned
      ]_vars

\* a cell assignment of Table::layout failed: the table is assigned though
\* none of its output cells is written
C26_Witness ==
    /\ last.call = "Table::layout"
    /\ last.ret = "Synthesis"
    /\ static_lookups.tables[last.nl].is_assigned
    /\ \A k \in DOMAIN static_lookups.tables[last.nl].table_outputs :
          <<static_lookups.tables[last.nl].table_outputs[k], 0>>
             \notin DOMAIN fixed

----------------------------------------------------------------------------
\* C27: for every table of the registry and every range check, the number
\* of col_size-sized chunks layout writes equals selector_constructor.degree
\* and does not exceed the number of physical columns (table_inputs,
\* table_outputs, inputs), so that no layout call indexes a column that does
\* not exist.
C27_ChunksWithinColumns ==
    /\ \A nl \in DOMAIN static_lookups.tables :
          LET t == static_lookups.tables[nl]
              chunks == NumChunks((t.range[2] - t.range[1]) + 1, t.col_size)
          IN  /\ chunks = t.selector_constructor.degree
              /\ chunks <= Len(t.table_inputs)
              /\ chunks <= Len(t.table_outputs)
    /\ \A r \in DOMAIN range_checks.ranges :
          LET rc == range_checks.ranges[r]
              chunks == NumChunks((rc.range[2] - rc.range[1]) + 1,
                                  rc.col_size)
          IN  /\ chunks = rc.selector_constructor.degree
              /\ chunks <= Len(rc.inputs)
    /\ last.call \in {"Table::layout", "layout_tables", "RangeCheck::layout",
                      "layout_range_checks"} => last.ret # "panic"

\* Table::layout indexed a column the table does not hold: the table has
\* more chunks than output columns
C27_MissingColumn ==
    /\ last.call = "Table::layout"
    /\ last.ret = "panic"
    /\ LET t == static_lookups.tables[last.nl]
       IN  NumChunks((t.range[2] - t.range[1]) + 1, t.col_size)
              > Len(t.table_outputs)

----------------------------------------------------------------------------
\* C28: for every table and range check of the registries and every
\* integer v of [lo, hi], get_col_index(v) is the index of the physical
\* column in which layout places v (the first component of
\* cartesian_coord(v - lo)) and is smaller than the number of chunks, and
\* get_first_element(get_col_index(v)) is the value layout places at row 0
\* of that column: its linear coordinate is (column, 0), and once a layout
\* call has succeeded the cell at row 0 of that column holds it (for a
\* table, with its nonlinearity in the output column), scaled by the
\* multiplier of the column.
C28_ColIndexMatchesLayout ==
    /\ \A nl \in DOMAIN static_lookups.tables :
          LET t  == static_lookups.tables[nl]
              lo == t.range[1]
              chunks == NumChunks((t.range[2] - lo) + 1, t.col_size)
          IN  \A v \in lo..t.range[2] :
                LET col   == felt_to_i64(get_col_index(t, i64_to_felt(v)))
                    first == get_first_element(t, col)
                    m     == get_selector_val_at_idx(
                                 t.selector_constructor.degree, col)
                IN  /\ col = cartesian_coord(t, v - lo)[1]
                    /\ col < chunks
                    /\ cartesian_coord(t, felt_to_i64(first[1]) - lo)
                          = <<col, 0>>
                    /\ first[2] = LookupOp_f(nl, first[1])
                    /\ (last.call = "Table::layout" /\ last.nl = nl
                          /\ last.ret = "Ok") =>
                          /\ fixed[<<t.table_outputs[col + 1], 0>>]
                                = FMul(first[2], m)
                          /\ ~last.preassigned_input =>
                                fixed[<<t.table_inputs[col + 1], 0>>]
                                   = FMul(first[1], m)
    /\ \A r \in DOMAIN range_checks.ranges :
          LET rc == range_checks.ranges[r]
              lo == rc.range[1]
              chunks == NumChunks((rc.range[2] - lo) + 1, rc.col_size)
          IN  \A v \in lo..rc.range[2] :
                LET col   == felt_to_i64(
                                 RangeCheck_get_col_index(rc, i64_to_felt(v)))
                    first == RangeCheck_get_first_element(rc, col)
                    m     == get_selector_val_at_idx(
                                 rc.selector_constructor.degree, col)
                IN  /\ col = RangeCheck_cartesian_coord(rc, v - lo)[1]
                    /\ col < chunks
                    /\ RangeCheck_cartesian_coord(rc, felt_to_i64(first) - lo)
                          = <<col, 0>>
                    /\ (last.call = "RangeCheck::layout" /\ last.range = r
                          /\ last.ret = "Ok") =>
                          fixed[<<rc.inputs[col + 1], 0>>] = FMul(first, m)

\* a table of three chunks was laid out: the largest value of its range is
\* in column 2
C28_Witness ==
    /\ last.call = "Table::layout"
    /\ last.ret = "Ok"
    /\ ~last.preassigned_input
    /\ LET t == static_lookups.tables[last.nl]
       IN  /\ get_col_index(t, i64_to_felt(t.range[2])) = i64_to_felt(2)
           /\ <<t.table_inputs[3], 0>> \in DOMAIN fixed

----------------------------------------------------------------------------
(* configure_lookup and layout_tables interleaved on one BaseConfig *)

SpecTables == Init /\ [][ConfigureLookup \/ LayoutTables]_vars

\* the input columns the tables of a registry share
SharedInputs(tables) ==
    UNION {Elems(tables[nl].table_inputs) : nl \in DOMAIN tables}

\* the input writes of a layout_tables call are the cells of one table: of
\* an unassigned table of the registry, for values of its range
WrittenByOneTable(w, tables) ==
    \E nl \in DOMAIN tables :
       /\ ~tables[nl].is_assigned
       /\ \A n \in WritesTo(w, SharedInputs(tables)) :
             \E v \in tables[nl].range[1]..tables[nl].range[2] :
                LET t  == tables[nl]
                    xy == cartesian_coord(t, v - t.range[1])
                IN  /\ xy[1] < Len(t.table_inputs)
                    /\ w[n] = <<t.table_inputs[xy[1] + 1], xy[2],
                                FMul(i64_to_felt(v),
                                     get_selector_val_at_idx(
                                        t.selector_constructor.degree,
                                        xy[1]))>>

\* C29: across any interleaving of configure_lookup and layout_tables on
\* one BaseConfig, every table is laid out at most once (a call writes no
\* cell of an assigned table and no cell that is already written),
\* layout_tables never returns TableAlreadyAssigned, a call with no
\* unassigned table writes no cell, and the shared input columns are written
\* by exactly one table, once overall: a call writes input cells only when
\* none is written yet, all of them for one table, and once layout_tables
\* has succeeded every shared input column is written.
C29_InputsWrittenByOneTable ==
    [][last'.call = "layout_tables" =>
         LET tables == static_lookups.tables
             w      == last'.writes
         IN  /\ last'.ret # "TableAlreadyAssigned"
             /\ (\A nl \in DOMAIN tables : tables[nl].is_assigned) =>
                   (w = <<>> /\ fixed' = fixed)
             /\ \A nl \in DOMAIN tables :
                   tables[nl].is_assigned =>
                      WritesTo(w, Elems(tables[nl].table_outputs)) = {}
             /\ \A n \in DOMAIN w :
                   /\ <<w[n][1], w[n][2]>> \notin DOMAIN fixed
                   /\ \A k \in DOMAIN w :
                         k # n => <<w[k][1], w[k][2]>> # <<w[n][1], w[n][2]>>
             /\ WritesTo(w, SharedInputs(tables)) # {} =>
                   /\ \A c \in DOMAIN fixed : c[1] \notin SharedInputs(tables)
                   /\ WrittenByOneTable(w, tables)
             /\ (last'.ret = "Ok" /\ DOMAIN tables # {}) =>
                   \A column \in SharedInputs(tables) :
                      <<column, 0>> \in DOMAIN fixed'
    ]_vars

\* layout_tables succeeded on two tables and left a shared input column
\* unwritten
C29_InputColumnUnwritten ==
    /\ last.call = "layout_tables"
    /\ last.ret = "Ok"
    /\ Cardinality(DOMAIN static_lookups.tables) = 2
    /\ \A nl \in DOMAIN static_lookups.tables :
          static_lookups.tables[nl].is_assigned
    /\ \E column \in SharedInputs(static_lookups.tables) :
          <<column, 0>> \notin DOMAIN fixed

----------------------------------------------------------------------------
\* the selectors of a lookup-any relation are recorded in a registry of
\* per-(block, inner column) selectors and table-side selectors
Recorded(lk, selectors, table_selectors) ==
    /\ <<lk.x, lk.y>> \in DOMAIN selectors
    /\ selectors[<<lk.x, lk.y>>] = lk.s_input
    /\ lk.s_table \in Elems(table_selectors)

\* C30: after any sequence of configure_dynamic_lookup (configure_shuffles)
\* calls every selector gating a registered lookup-any relation is recorded
\* in the registry: the lookup-side selector is the value of
\* lookup_selectors (input_selectors) at the relation's (block, inner
\* column) key, the table-side selector is an element of table_selectors
\* (reference_selectors), and that vector has one element per successful
\* call.
C30_GatingSelectorsRecorded ==
    ~panicked =>
       /\ \A q \in DOMAIN cs.lookups :
             IF shuffles = Shuffles_default
             THEN Recorded(cs.lookups[q], dynamic_lookups.lookup_selectors,
                           dynamic_lookups.table_selectors)
             ELSE Recorded(cs.lookups[q], shuffles.input_selectors,
                           shuffles.reference_selectors)
       /\ Len(dynamic_lookups.table_selectors)
             + Len(shuffles.reference_selectors)
             = Cardinality({cs.lookups[q].s_table : q \in DOMAIN cs.lookups})

\* after two successful configure_dynamic_lookup calls a relation is gated
\* by a lookup-side selector that lookup_selectors does not hold
C30_SelectorNotRecorded ==
    /\ ~panicked
    /\ Len(dynamic_lookups.table_selectors) = 2
    /\ \E q \in DOMAIN cs.lookups :
          /\ cs.lookups[q].s_table = dynamic_lookups.table_selectors[2]
          /\ \A k \in DOMAIN dynamic_lookups.lookup_selectors :
                dynamic_lookups.lookup_selectors[k] # cs.lookups[q].s_input

====
